---- MODULE Spec2Model ----
(***************************************************************************)
(* A model of the ShakaPlayer component: source normalisation, the access  *)
(* gate, the protected-URL exchange, the player initialisation effect and  *)
(* the quality / server switches.                                          *)
(*                                                                         *)
(* JavaScript strings are sequences of one-character strings, so that      *)
(* toLowerCase, trim, endsWith and includes are computed, not assumed.     *)
(***************************************************************************)
EXTENDS Integers, Sequences, FiniteSets, TLC

VARIABLES
    \* --- normalizeType applied to one descriptor (specification SpecNormalize)
    ntRawType, ntUrl, ntResult,
    \* --- props of the mounted ShakaPlayer (fixed for one mount)
    videoSources, accessType, excludeFromPlan, autoplay,
    \* --- shaka.Player.isBrowserSupported() in the viewer's browser
    browserSupported,
    \* --- hooks: useAuth, useSubscription, useRental
    user, subscriptionLoading, rentalLoading, hasActiveSubscription, hasActiveRental,
    \* --- component state (useState)
    currentSource, protectedSource, accessValidated, accessError, isLoading,
    currentQuality, availableQualities, isPlaying, autoQualityEnabled, showControls,
    \* --- playerRef (0: null, else the number of an engine) and every
    \*     shaka.Player built so far
    playerRef, engines,
    \* --- the viewer picked a quality and has not switched automatic mode
    \*     back on since
    manualQuality,
    \* --- the last call of fallbackToNativeHls made by the running
    \*     initialisation, NULL before any
    lastFallback,
    \* --- the timeouts and intervals that are set and have neither fired nor
    \*     been cleared (the 100 ms autoplay timeout and the 150 ms wait of
    \*     cleanupPlayer are entries of tasks)
    timers,
    \* --- the isPlaying that the callback of the pending 3 s controls
    \*     timeout closed over (FALSE while none is pending)
    controlsPlaying,
    \* --- the media element behind videoRef, and pending asynchronous work
    phase, video, inflight, tasks, initCleanup, viewerActions,
    \* --- wasPlaying / savedTime of the quality switch whose restore is awaited
    qualitySwitch,
    \* --- wasPlaying / savedTime of the last server switch between two
    \*     non-embed sources
    serverSwitch,
    \* --- progress tracking (specification SpecProgress): the element's
    \*     duration and position, the interval, the runs of saveProgress that
    \*     await the backend, the watch_history rows of this viewer and
    \*     content, the calls made so far and the duration the last call saw
    pgDuration, pgTime, pgTracking, pgSaves, watchHistory, pgCalls, pgLastDuration,
    \* --- fullscreen and orientation (specification SpecFullscreen): the
    \*     platform (isNative && isAndroid), whether the container has
    \*     requestFullscreen, document.fullscreenElement, the isFullscreen
    \*     state, the runs of toggleFullscreen awaiting the browser, the last
    \*     orientation lock asked of the shell, and the toggles so far
    nativeAndroid, fsApi, fsElement, isFullscreen, fsPending, lastLock, fsToggles,
    \* --- the viewer id and the saved position (the load effect of
    \*     ShakaPlayer): the userId state is set, the savedProgress state,
    \*     what the load of the watch_history row found, and whether the
    \*     resume effect has moved the element to a saved position
    userId, savedProgress, pgLoaded, pgResumed,
    \* --- the renders of the parent VideoPlayer after the first, each of
    \*     which passes a new videoSources array
    sourcesGen,
    \* --- the admin settings pages (specification SpecSettings): the page
    \*     whose save runs, the setting keys it has still to write, where
    \*     the run stands, what its last select found, the keys that have a
    \*     site_settings row, the saving flags of the two pages, the
    \*     notification of the run, and whether a write of the run failed
    stPage, stQueue, stStage, stExisting, siteSettings, isSaving, isSubmitting,
    toast, stWriteFailed,
    \* --- MobileVideoPlayer (specification SpecMobile): its mount state, the
    \*     props the source-initialisation effect depends on, Hls.isSupported(),
    \*     hlsRef (0: null) and every Hls instance built so far (TRUE: not
    \*     destroyed), the loadedmetadata listeners on the media element (the
    \*     autoplay each closed over), the calls of play() made by the last
    \*     metadata event, and the changes of props so far
    mvPhase, mvVideoUrl, mvSourceType, mvAutoplay, hlsSupported, hlsRef, hlsInstances,
    metadataListeners, playAttempts, mvChanges

ntVars == <<ntRawType, ntUrl, ntResult>>

propVars == <<videoSources, accessType, excludeFromPlan, autoplay, browserSupported>>

hookVars == <<user, subscriptionLoading, rentalLoading, hasActiveSubscription, hasActiveRental>>

stateVars == <<currentSource, protectedSource, accessValidated, accessError, isLoading,
               currentQuality, availableQualities, isPlaying, autoQualityEnabled,
               showControls>>

envVars == <<phase, video, inflight, tasks, initCleanup, viewerActions, qualitySwitch,
            serverSwitch, playerRef, engines, manualQuality, lastFallback,
            timers, controlsPlaying>>

pgVars == <<pgDuration, pgTime, pgTracking, pgSaves, watchHistory, pgCalls, pgLastDuration>>

fsVars == <<nativeAndroid, fsApi, fsElement, isFullscreen, fsPending, lastLock, fsToggles>>

\* the variables of the components beside the player's own
rsVars == <<userId, savedProgress, pgLoaded, pgResumed>>

parentVars == <<sourcesGen>>

\* the variables of what surrounds the player
stVars == <<stPage, stQueue, stStage, stExisting, siteSettings, isSaving, isSubmitting,
            toast, stWriteFailed>>

mvVars == <<mvPhase, mvVideoUrl, mvSourceType, mvAutoplay, hlsSupported, hlsRef,
            hlsInstances, metadataListeners, playAttempts, mvChanges>>

sideVars == <<parentVars, stVars, mvVars>>

auxVars == <<fsVars, rsVars, sideVars>>

vars == <<ntVars, propVars, hookVars, stateVars, envVars, pgVars, auxVars>>

(***************************************************************************)
(* Strings                                                                 *)
(***************************************************************************)
\* JavaScript undefined for an optional string: no real string has this shape
Undefined == <<"<undefined>">>

TagHls == <<"h","l","s">>
TagHlsUpper == <<"H","L","S">>
TagM3u8 == <<"m","3","u","8">>
TagMp4 == <<"m","p","4">>
TagMp4Padded == <<" ","M","p","4"," ">>
TagDash == <<"d","a","s","h">>
TagDashUpper == <<"D","A","S","H">>
TagEmbed == <<"e","m","b","e","d">>
TagIframe == <<"i","f","r","a","m","e">>
TagIframeMixed == <<"I","F","r","a","m","e">>
TagEmpty == << >>
TagVideo == <<"v","i","d","e","o">>
TagBlank == <<" "," ">>
TagMpd == <<"m","p","d">>
SufM3u8 == <<".","m","3","u","8">>
SufMpd == <<".","m","p","d">>
SufMp4 == <<".","m","p","4">>
SubYoutube == <<"y","o","u","t","u","b","e",".","c","o","m">>
SubYoutuBe == <<"y","o","u","t","u",".","b","e">>
SubPlayer == <<"p","l","a","y","e","r",".">>
SubEmbed == <<"e","m","b","e","d">>
UrlM3u8 == <<"a",".","m","3","u","8">>
UrlMpd == <<"a",".","m","p","d">>
UrlMp4 == <<"a",".","m","p","4">>
UrlMp4Upper == <<"A",".","M","P","4">>
UrlYoutuBe == <<"y","o","u","t","u",".","b","e","/","x">>
UrlYoutube == <<"y","o","u","t","u","b","e",".","c","o","m","/","w">>
UrlPlayer == <<"p","l","a","y","e","r",".","i","o","/","v">>
UrlEmbedPath == <<"x","/","e","m","b","e","d","/","1">>
UrlM3u8Query == <<"a",".","m","3","u","8","?","t","=","1">>
UrlCdn == <<"c","d","n","/","x">>
UrlEmbedMp4 == <<"e","m","b","e","d","/","a",".","m","p","4">>
UrlYoutuBeMpd == <<"y","o","u","t","u",".","b","e","/","a",".","m","p","d">>
UrlMp4Space == <<"a",".","m","p","4"," ">>

UpperLetters == <<"A","B","C","D","E","F","G","H","I","J","K","L","M",
                  "N","O","P","Q","R","S","T","U","V","W","X","Y","Z">>

LowerLetters == <<"a","b","c","d","e","f","g","h","i","j","k","l","m",
                  "n","o","p","q","r","s","t","u","v","w","x","y","z">>

Whitespace == {" ", "\t", "\n"}

\* String.prototype.toLowerCase, one character
LowerChar(c) ==
    IF \E i \in 1..Len(UpperLetters) : UpperLetters[i] = c
    THEN LowerLetters[CHOOSE i \in 1..Len(UpperLetters) : UpperLetters[i] = c]
    ELSE c

\* String.prototype.toLowerCase
ToLowerCase(s) == [i \in 1..Len(s) |-> LowerChar(s[i])]

RECURSIVE TrimStart(_)
TrimStart(s) ==
    IF s # << >> /\ Head(s) \in Whitespace THEN TrimStart(Tail(s)) ELSE s

RECURSIVE TrimEnd(_)
TrimEnd(s) ==
    IF s # << >> /\ s[Len(s)] \in Whitespace THEN TrimEnd(SubSeq(s, 1, Len(s) - 1)) ELSE s

\* String.prototype.trim
Trim(s) == TrimEnd(TrimStart(s))

\* String.prototype.endsWith
EndsWith(s, suffix) ==
    /\ Len(suffix) <= Len(s)
    /\ SubSeq(s, Len(s) - Len(suffix) + 1, Len(s)) = suffix

\* String.prototype.includes
Includes(s, part) ==
    \E i \in 1..(Len(s) - Len(part) + 1) : SubSeq(s, i, i + Len(part) - 1) = part

\* (x || ""): undefined and the empty string both give ""
OrEmpty(s) == IF s = Undefined THEN << >> ELSE s

(***************************************************************************)
(* normalizeType                                                           *)
(***************************************************************************)
StreamKinds == {"mp4", "hls", "dash", "iframe"}

\* A plausible slip: the URL suffix is consulted before the declared tag.
normalizeTypeUrlFirst(rawType, url) ==
    LET t == Trim(ToLowerCase(OrEmpty(rawType)))
        u == ToLowerCase(OrEmpty(url))
    IN  IF EndsWith(u, SufM3u8) THEN "hls"
        ELSE IF EndsWith(u, SufMpd) THEN "dash"
        ELSE IF EndsWith(u, SufMp4) THEN "mp4"
        ELSE IF t = TagIframe \/ t = TagEmbed THEN "iframe"
        ELSE IF t = TagMp4 THEN "mp4"
        ELSE IF t = TagHls \/ t = TagM3u8 THEN "hls"
        ELSE IF t = TagDash THEN "dash"
        ELSE IF \/ Includes(u, SubYoutube) \/ Includes(u, SubYoutuBe)
                \/ Includes(u, SubPlayer) \/ Includes(u, SubEmbed) THEN "iframe"
        ELSE "hls"

\* A plausible slip: the embed-host test is made before the suffix tests.
normalizeTypeEmbedFirst(rawType, url) ==
    LET t == Trim(ToLowerCase(OrEmpty(rawType)))
        u == ToLowerCase(OrEmpty(url))
    IN  IF t = TagIframe \/ t = TagEmbed THEN "iframe"
        ELSE IF t = TagMp4 THEN "mp4"
        ELSE IF t = TagHls \/ t = TagM3u8 THEN "hls"
        ELSE IF t = TagDash THEN "dash"
        ELSE IF \/ Includes(u, SubYoutube) \/ Includes(u, SubYoutuBe)
                \/ Includes(u, SubPlayer) \/ Includes(u, SubEmbed) THEN "iframe"
        ELSE IF EndsWith(u, SufM3u8) THEN "hls"
        ELSE IF EndsWith(u, SufMpd) THEN "dash"
        ELSE IF EndsWith(u, SufMp4) THEN "mp4"
        ELSE "hls"

normalizeType(rawType, url) ==
    LET t == Trim(ToLowerCase(OrEmpty(rawType)))
        u == ToLowerCase(OrEmpty(url))
    IN  IF t = TagIframe \/ t = TagEmbed THEN "iframe"
        ELSE IF t = TagMp4 THEN "mp4"
        ELSE IF t = TagHls \/ t = TagM3u8 THEN "hls"
        ELSE IF t = TagDash THEN "dash"
        ELSE IF EndsWith(u, SufM3u8) THEN "hls"
        ELSE IF EndsWith(u, SufMpd) THEN "dash"
        ELSE IF EndsWith(u, SufMp4) THEN "mp4"
        ELSE IF \/ Includes(u, SubYoutube) \/ Includes(u, SubYoutuBe)
                \/ Includes(u, SubPlayer) \/ Includes(u, SubEmbed) THEN "iframe"
        ELSE "hls"

\* The descriptors normalizeType is applied to in SpecNormalize
RawTypeInputs ==
    { Undefined, TagEmpty, TagBlank, TagVideo, TagMpd,
      TagHls, TagHlsUpper, TagM3u8, TagMp4, TagMp4Padded,
      TagDash, TagDashUpper, TagEmbed, TagIframe, TagIframeMixed }

UrlInputs ==
    { Undefined, UrlM3u8, UrlMpd, UrlMp4, UrlMp4Upper, UrlYoutuBe, UrlYoutube,
      UrlPlayer, UrlEmbedPath, UrlM3u8Query, UrlCdn, UrlEmbedMp4, UrlYoutuBeMpd,
      UrlMp4Space }

(***************************************************************************)
(* Video sources                                                           *)
(***************************************************************************)
Q720p == <<"7","2","0","p">>
Q480p == <<"4","8","0","p">>
Q720 == <<"7","2","0">>
KeyType == <<"_","t","y","p","e">>
StrUndefined == <<"u","n","d","e","f","i","n","e","d">>
Url720 == <<"h",".","m","p","4">>
Url480 == <<"l",".","m","p","4">>

\* A value of the quality_urls / mp4Urls field.  tag is what JavaScript sees
\* (undefined, null, an array, or a plain object); entries are the object's
\* own properties in insertion order, which is the order of Object.keys.
NoMap == [tag |-> "undefined", entries |-> << >>]
NullMap == [tag |-> "null", entries |-> << >>]
ArrayMap == [tag |-> "array", entries |-> << >>]
ObjectMap(entries) == [tag |-> "object", entries |-> entries]
EmptyMap == ObjectMap(<< >>)
SentinelMap == ObjectMap(<< [k |-> KeyType, v |-> StrUndefined] >>)
TwoQualities == ObjectMap(<< [k |-> Q480p, v |-> Url480], [k |-> Q720p, v |-> Url720] >>)
OneQuality == ObjectMap(<< [k |-> Q480p, v |-> Url480] >>)
TaggedQualities == ObjectMap(<< [k |-> Q720p, v |-> Url720], [k |-> KeyType, v |-> StrUndefined] >>)

\* Object.keys(m)
Keys(m) == [i \in 1..Len(m.entries) |-> m.entries[i].k]

\* m[key]: the value of the property, or Undefined
Lookup(m, key) ==
    IF \E i \in 1..Len(m.entries) : m.entries[i].k = key
    THEN m.entries[CHOOSE i \in 1..Len(m.entries) : m.entries[i].k = key].v
    ELSE Undefined

\* JavaScript truthiness of a quality_urls value
Truthy(m) == m.tag \in {"object", "array"}

\* no source: the null of currentSource / protectedSource
NULL == [null |-> TRUE]

\* A raw descriptor as the page hands it to the player (VideoSource).  The
\* fields server_name, version and permission are copied through and never
\* read by the player, so they are left out.
RawSource(id, sourceType, url, qualityUrls, mp4Urls, quality, isDefault) ==
    [id |-> id, source_type |-> sourceType, url |-> url, quality_urls |-> qualityUrls,
     mp4Urls |-> mp4Urls, quality |-> quality, is_default |-> isDefault]

\* the quality-URL map of a raw descriptor after the sanitising of sources
SanitizedQualityUrls(source) ==
    LET qualityUrls == IF Truthy(source.quality_urls) THEN source.quality_urls
                       ELSE source.mp4Urls
    IN  IF Truthy(qualityUrls) /\ qualityUrls.tag = "object"
        THEN IF Len(qualityUrls.entries) = 0 \/ Lookup(qualityUrls, KeyType) = StrUndefined
             THEN NoMap
             ELSE qualityUrls
        ELSE NoMap

\* A plausible slip: the URLs are copied through whatever the access tier.
NormalizeSourceLeaky(source, tier) ==
    [id |-> source.id,
     type |-> normalizeType(source.source_type, source.url),
     url |-> source.url,
     quality_urls |-> SanitizedQualityUrls(source),
     quality |-> source.quality,
     is_default |-> source.is_default,
     ref |-> 0]

\* one entry of the sources memo; ref tells JavaScript objects apart
\* (0: an object of the memo; 1, 2: objects built from backend responses)
NormalizeSource(source, tier) ==
    [id |-> source.id,
     type |-> normalizeType(source.source_type, source.url),
     url |-> IF tier = "free" THEN source.url ELSE Undefined,
     quality_urls |-> IF tier = "free" THEN SanitizedQualityUrls(source) ELSE NoMap,
     quality |-> source.quality,
     is_default |-> source.is_default,
     ref |-> 0]

\* the sources memo: the normalised list for a raw list and an access tier
NormalizedSources(raw, tier) == [i \in 1..Len(raw) |-> NormalizeSource(raw[i], tier)]

\* the memo after g further renders of the parent: its dependency
\* videoSources is a new array each time, so the memo holds new objects
SourcesOf(g) ==
    [i \in 1..Len(videoSources) |->
        [NormalizeSource(videoSources[i], accessType) EXCEPT !.ref = 0 - g]]

sources == SourcesOf(sourcesGen)

(***************************************************************************)
(* Access gate                                                             *)
(***************************************************************************)
\* A plausible slip: a subscription also unlocks rent content that is
\* excluded from the plan.
isLockedMemoNoExclude(tier, exclude, hasSub, hasRent, subLoading, rentLoading) ==
    IF subLoading \/ rentLoading \/ tier = "free" THEN FALSE
    ELSE IF tier = "rent" THEN ~hasSub /\ ~hasRent
    ELSE IF tier = "vip" THEN ~hasSub
    ELSE FALSE

\* A plausible slip: an active rental also unlocks vip content.
isLockedMemoRentalUnlocksVip(tier, exclude, hasSub, hasRent, subLoading, rentLoading) ==
    IF subLoading \/ rentLoading \/ tier = "free" THEN FALSE
    ELSE IF tier = "rent" /\ exclude THEN ~hasRent
    ELSE IF tier = "rent" /\ ~exclude THEN ~hasSub /\ ~hasRent
    ELSE IF tier = "vip" THEN ~hasSub /\ ~hasRent
    ELSE FALSE

\* A plausible slip: rent without exclude asks for a subscription only.
isLockedMemoRentNeedsSub(tier, exclude, hasSub, hasRent, subLoading, rentLoading) ==
    IF subLoading \/ rentLoading \/ tier = "free" THEN FALSE
    ELSE IF tier = "rent" /\ exclude THEN ~hasRent
    ELSE IF tier = "rent" /\ ~exclude THEN ~hasSub
    ELSE IF tier = "vip" THEN ~hasSub
    ELSE FALSE

isLockedMemo(tier, exclude, hasSub, hasRent, subLoading, rentLoading) ==
    IF subLoading \/ rentLoading \/ tier = "free" THEN FALSE
    ELSE IF tier = "rent" /\ exclude THEN ~hasRent
    ELSE IF tier = "rent" /\ ~exclude THEN ~hasSub /\ ~hasRent
    ELSE IF tier = "vip" THEN ~hasSub
    ELSE FALSE

\* isLocked as one render sees it (w: the values of that render)
Locked(w) ==
    isLockedMemo(accessType, excludeFromPlan, w.hasActiveSubscription, w.hasActiveRental,
                 w.subscriptionLoading, w.rentalLoading)

isLocked ==
    isLockedMemo(accessType, excludeFromPlan, hasActiveSubscription, hasActiveRental,
                 subscriptionLoading, rentalLoading)

(***************************************************************************)
(* Quality labels                                                          *)
(***************************************************************************)
DigitChars == <<"0","1","2","3","4","5","6","7","8","9">>

IsDigit(c) == \E i \in 1..Len(DigitChars) : DigitChars[i] = c

DigitValue(c) == (CHOOSE i \in 1..Len(DigitChars) : DigitChars[i] = c) - 1

\* s.replace(/[^0-9]/g, "") and s.replace(/\D/g, "")
DigitsOf(s) == SelectSeq(s, IsDigit)

\* parseInt of a string of digits; -1 stands for NaN (no digit at all)
RECURSIVE ParseDigits(_)
ParseDigits(ds) ==
    IF ds = << >> THEN 0
    ELSE 10 * ParseDigits(SubSeq(ds, 1, Len(ds) - 1)) + DigitValue(ds[Len(ds)])

ParseInt(s) == IF DigitsOf(s) = << >> THEN -1 ELSE ParseDigits(DigitsOf(s))

\* a string that JavaScript takes as true
TruthyString(s) == s # Undefined /\ s # << >>

\* keys.find(k => digits(k) === digits(desired))
findMatchingQualityKey(keys, desired) ==
    IF ~TruthyString(desired) THEN Undefined
    ELSE IF \E i \in 1..Len(keys) : DigitsOf(keys[i]) = DigitsOf(desired)
         THEN keys[CHOOSE i \in 1..Len(keys) :
                     /\ DigitsOf(keys[i]) = DigitsOf(desired)
                     /\ \A j \in 1..(i - 1) : DigitsOf(keys[j]) # DigitsOf(desired)]
         ELSE Undefined

\* quality.replace(/p$/i, "")
StripP(quality) ==
    IF quality # << >> /\ quality[Len(quality)] \in {"p", "P"}
    THEN SubSeq(quality, 1, Len(quality) - 1)
    ELSE quality

getMp4Url(mp4Urls, quality) ==
    LET matchKey == findMatchingQualityKey(Keys(mp4Urls), quality)
    IN  IF TruthyString(Lookup(mp4Urls, quality)) THEN Lookup(mp4Urls, quality)
        ELSE IF TruthyString(matchKey) /\ TruthyString(Lookup(mp4Urls, matchKey))
             THEN Lookup(mp4Urls, matchKey)
        ELSE IF TruthyString(Lookup(mp4Urls, StripP(quality)))
             THEN Lookup(mp4Urls, StripP(quality))
        ELSE Undefined

\* x put into a list sorted by descending number, after its equals (the sort
\* of JavaScript is stable; a NaN comparison counts as equal)
RECURSIVE InsertQuality(_, _)
InsertQuality(sorted, x) ==
    IF sorted = << >> THEN <<x>>
    ELSE IF ParseInt(x) # -1 /\ ParseInt(Head(sorted)) # -1 /\ ParseInt(x) > ParseInt(Head(sorted))
         THEN <<x>> \o sorted
         ELSE <<Head(sorted)>> \o InsertQuality(Tail(sorted), x)

\* Object.keys(m).sort((a, b) => parseInt(digits(b)) - parseInt(digits(a)))
RECURSIVE SortQualities(_)
SortQualities(keys) ==
    IF keys = << >> THEN << >>
    ELSE InsertQuality(SortQualities(SubSeq(keys, 1, Len(keys) - 1)), keys[Len(keys)])

\* qualities.includes(q)
InSeq(seq, x) == \E i \in 1..Len(seq) : seq[i] = x

(***************************************************************************)
(* Bounds of the model                                                     *)
(***************************************************************************)
\* positions of the media element are 0..MaxTime
MaxTime == 2
\* calls of getProtectedUrl awaiting their response
MaxInFlight == 2
\* suspended cleanupPlayer / initPlayer runs and armed timers
MaxTasks == 2
\* canplay listeners registered on the media element
MaxListeners == 2
\* actions of the viewer (server menu, quality menu, play button) in one run
MaxViewerActions == 2
\* instances of shaka.Player built in one run
MaxEngines == 2

(***************************************************************************)
(* The world: the values one render closes over (state and hooks) and the  *)
(* mutable objects every closure shares (media element, pending work).     *)
(***************************************************************************)
World ==
    [currentSource |-> currentSource, protectedSource |-> protectedSource,
     accessValidated |-> accessValidated, accessError |-> accessError,
     isLoading |-> isLoading, currentQuality |-> currentQuality,
     availableQualities |-> availableQualities, isPlaying |-> isPlaying,
     user |-> user, subscriptionLoading |-> subscriptionLoading,
     rentalLoading |-> rentalLoading, hasActiveSubscription |-> hasActiveSubscription,
     hasActiveRental |-> hasActiveRental,
     video |-> video, inflight |-> inflight, tasks |-> tasks,
     initCleanup |-> initCleanup, qualitySwitch |-> qualitySwitch,
     serverSwitch |-> serverSwitch, autoQualityEnabled |-> autoQualityEnabled,
     playerRef |-> playerRef, engines |-> engines, manualQuality |-> manualQuality,
     lastFallback |-> lastFallback, timers |-> timers,
     showControls |-> showControls, controlsPlaying |-> controlsPlaying]

\* the next state is the world w
Becomes(w) ==
    /\ currentSource' = w.currentSource
    /\ protectedSource' = w.protectedSource
    /\ accessValidated' = w.accessValidated
    /\ accessError' = w.accessError
    /\ isLoading' = w.isLoading
    /\ currentQuality' = w.currentQuality
    /\ availableQualities' = w.availableQualities
    /\ isPlaying' = w.isPlaying
    /\ user' = w.user
    /\ subscriptionLoading' = w.subscriptionLoading
    /\ rentalLoading' = w.rentalLoading
    /\ hasActiveSubscription' = w.hasActiveSubscription
    /\ hasActiveRental' = w.hasActiveRental
    /\ video' = w.video
    /\ inflight' = w.inflight
    /\ tasks' = w.tasks
    /\ initCleanup' = w.initCleanup
    /\ qualitySwitch' = w.qualitySwitch
    /\ serverSwitch' = w.serverSwitch
    /\ autoQualityEnabled' = w.autoQualityEnabled
    /\ playerRef' = w.playerRef
    /\ engines' = w.engines
    /\ manualQuality' = w.manualQuality
    /\ lastFallback' = w.lastFallback
    /\ timers' = w.timers
    /\ showControls' = w.showControls
    /\ controlsPlaying' = w.controlsPlaying

\* the bounds on pending work hold in w
WithinBounds(w) ==
    /\ Len(w.inflight) <= MaxInFlight
    /\ Len(w.tasks) <= MaxTasks
    /\ Len(w.engines) <= MaxEngines
    /\ w.video # NULL => Len(w.video.listeners) <= MaxListeners

(***************************************************************************)
(* The media element                                                       *)
(***************************************************************************)
\* a media element as React creates it: no source, paused, at position 0
FreshVideo ==
    [src |-> Undefined, paused |-> TRUE, time |-> 0, ready |-> FALSE, listeners |-> << >>]

\* video.src = url; video.load(): the load algorithm resets the element
SetSrcAndLoad(v, url) ==
    [v EXCEPT !.src = url, !.paused = TRUE, !.time = 0, !.ready = FALSE]

\* video.removeAttribute('src'); video.load(): an element that had a resource
\* is reset; an empty element keeps its paused flag
RemoveSrcAndLoad(v) ==
    [v EXCEPT !.src = Undefined, !.time = 0, !.ready = FALSE,
              !.paused = IF v.src = Undefined THEN v.paused ELSE TRUE]

\* video.addEventListener('canplay', l, { once: true }); two listeners that
\* only clear isLoading act as one
AddListener(v, l) ==
    IF InSeq(v.listeners, l) /\ l.kind = "loaded" THEN v
    ELSE [v EXCEPT !.listeners = Append(v.listeners, l)]

\* video.pause(): the pause event reaches handlePause, which clears
\* isPlaying, shows the controls and clears the auto-hide timeout
PauseVideo(w) ==
    IF w.video # NULL /\ ~w.video.paused
    THEN [w EXCEPT !.video.paused = TRUE, !.isPlaying = FALSE,
                   !.showControls = TRUE,
                   !.timers = w.timers \ {"autoHide"}]
    ELSE w

\* video.play(): the play event reaches handlePlay, which sets isPlaying
\* and the 5 s auto-hide timeout
PlayVideo(w) ==
    IF w.video # NULL /\ w.video.paused
    THEN [w EXCEPT !.video.paused = FALSE, !.isPlaying = TRUE,
                   !.timers = w.timers \cup {"autoHide"}]
    ELSE w

(***************************************************************************)
(* fetchProtectedSource                                                    *)
(***************************************************************************)
\* a pending call of getProtectedUrl: the source id sent, the currentQuality
\* the calling closure holds, and what the viewer's session and the access
\* gate were when the call was made
Request(r, source) ==
    [sourceId |-> source.id, currentQuality |-> r.currentQuality,
     authenticated |-> r.user, locked |-> Locked(r)]

\* fetchProtectedSource(source) up to its await, called from a closure of
\* render r, writing into n
FetchProtectedSourceCall(r, n, source) ==
    IF source = NULL \/ ~r.user
    THEN [n EXCEPT !.accessError = "login"]
    ELSE [n EXCEPT !.isLoading = TRUE,
                   !.accessError = "none",
                   !.inflight = Append(n.inflight, Request(r, source))]

\* the object of a JavaScript reference that differs from the one held now
NewRef(w) == IF w.protectedSource # NULL /\ w.protectedSource.ref = 1 THEN 2 ELSE 1

\* the descriptor the backend holds for an id: the page's raw descriptor
BackendSource(id) ==
    videoSources[CHOOSE i \in 1..Len(videoSources) : videoSources[i].id = id]

\* fetchProtectedSource after its await, the exchange having failed
FetchFailed(n) == [n EXCEPT !.accessError = "failed", !.accessValidated = FALSE]

\* fetchProtectedSource after its await, the exchange having succeeded with
\* the backend's descriptor for req.sourceId
FetchSucceeded(n, req) ==
    LET result == BackendSource(req.sourceId)
        sourceType == normalizeType(result.source_type, result.url)
        validatedSource ==
            [id |-> result.id, type |-> sourceType, url |-> result.url,
             quality_urls |-> result.quality_urls, quality |-> result.quality,
             is_default |-> result.is_default, ref |-> NewRef(n)]
        qualities == SortQualities(Keys(result.quality_urls))
        n1 == [n EXCEPT !.protectedSource = validatedSource, !.accessValidated = TRUE]
    IN  IF sourceType = "mp4" /\ Truthy(result.quality_urls)
        THEN [n1 EXCEPT !.availableQualities = qualities,
                        !.currentQuality =
                            IF InSeq(qualities, req.currentQuality) THEN n.currentQuality
                            ELSE IF qualities # << >> THEN qualities[1] ELSE Q720p]
        ELSE n1

(***************************************************************************)
(* cleanupPlayer and initPlayer                                            *)
(***************************************************************************)
\* what a run of initPlayer closes over
NoClosure == [none |-> TRUE]

Closure(r) ==
    [protectedSource |-> r.protectedSource, currentQuality |-> r.currentQuality,
     autoQualityEnabled |-> r.autoQualityEnabled]

\* String(n) for a natural number, as the template `${t.height}p` needs it
RECURSIVE NumberToString(_)
NumberToString(n) ==
    IF n < 10 THEN <<DigitChars[n + 1]>>
    ELSE NumberToString(n \div 10) \o <<DigitChars[(n % 10) + 1]>>

\* the heights of the variant tracks of the manifests the model plays, in
\* the order getVariantTracks lists them
TrackHeights == <<480, 720>>

\* estimatedBandwidth in bits per second: what detectBandwidth yields when
\* it can measure nothing
EstimatedBandwidth == 5000000

\* selectOptimalQuality over track heights: the greatest height within 20%
\* above the target, else the last track; 0 stands for null
selectOptimalQuality(tracks, bandwidth) ==
    LET targetHeight == IF bandwidth >= 5000000 THEN 1080
                        ELSE IF bandwidth >= 2500000 THEN 720
                        ELSE IF bandwidth >= 1000000 THEN 480
                        ELSE 360
        fits == {i \in 1..Len(tracks) : tracks[i] * 10 <= targetHeight * 12}
    IN  IF tracks = << >> THEN 0
        ELSE IF fits # {}
             THEN tracks[CHOOSE i \in fits : \A j \in fits : tracks[j] <= tracks[i]]
             ELSE tracks[Len(tracks)]

\* new shaka.Player(): alive, bound to no element, ABR on by default
FreshEngine ==
    [alive |-> TRUE, attached |-> FALSE, loading |-> FALSE, loaded |-> FALSE, abr |-> TRUE]

\* A plausible slip: the fallback is tried for every adaptive kind.
fallbackToNativeAny(n, c) ==
    LET ps == c.protectedSource
        n0 == [n EXCEPT !.lastFallback = [type |-> ps.type, url |-> ps.url]]
        n1 == [n0 EXCEPT !.video = SetSrcAndLoad(n.video, ps.url),
                         !.availableQualities = << >>]
    IN  IF n.video # NULL /\ TruthyString(ps.url)
        THEN IF autoplay THEN PlayVideo(n1) ELSE n1
        ELSE n0

\* fallbackToNativeHls() of the initPlayer run with closure c
fallbackToNativeHls(n, c) ==
    LET ps == c.protectedSource
        n0 == [n EXCEPT !.lastFallback = [type |-> ps.type, url |-> ps.url]]
        n1 == [n0 EXCEPT !.video = SetSrcAndLoad(n.video, ps.url),
                         !.availableQualities = << >>]
    IN  IF ps.type = "hls" /\ n.video # NULL /\ TruthyString(ps.url)
        THEN IF autoplay THEN PlayVideo(n1) ELSE n1
        ELSE n0

\* initPlayer after `await player.attach(video)`: playerRef is set, the
\* engine configured with the closure's autoQualityEnabled, load started
InitPlayerAttached(n, task) ==
    LET e == task.engine
        c == task.closure
        n1 == [n EXCEPT !.playerRef = e,
                        !.engines[e].attached = n.engines[e].alive,
                        !.engines[e].abr = c.autoQualityEnabled]
    IN  IF ~TruthyString(c.protectedSource.url) THEN [n1 EXCEPT !.isLoading = FALSE]
        ELSE [n1 EXCEPT !.engines[e].loading = n.engines[e].alive,
                        !.tasks = Append(n1.tasks, [kind |-> "load", closure |-> c,
                                                    engine |-> e])]

\* initPlayer after `await player.load(url)`: ok tells whether the promise
\* was fulfilled; a load that was interrupted (unload, detach, destroy) is
\* rejected
InitPlayerLoaded(n, task, ok) ==
    LET e == task.engine
        c == task.closure
        qualities == SortQualities([i \in 1..Len(TrackHeights) |->
                                       NumberToString(TrackHeights[i]) \o <<"p">>])
        optimal == selectOptimalQuality(TrackHeights, EstimatedBandwidth)
        n1 == [n EXCEPT !.engines[e].loading = FALSE,
                        !.engines[e].loaded = TRUE,
                        !.availableQualities = qualities,
                        !.currentQuality =
                            IF c.autoQualityEnabled /\ optimal # 0
                            THEN NumberToString(optimal) \o <<"p">>
                            ELSE n.currentQuality]
        n2 == [n1 EXCEPT !.video = AddListener(SetSrcAndLoad(n.video, c.protectedSource.url),
                                               [kind |-> "loaded"])]
    IN  IF ok /\ n.engines[e].loading
        THEN IF n.video = NULL THEN n1
             ELSE IF autoplay THEN PlayVideo(n2) ELSE n2
        ELSE fallbackToNativeHls([n EXCEPT !.isLoading = FALSE,
                                           !.engines[e].loading = FALSE], c)

\* initPlayer after `await cleanupPlayer()`, for the closure c
InitPlayerBody(n, c) ==
    LET ps == c.protectedSource
        hasMap == Truthy(ps.quality_urls) /\ Len(ps.quality_urls.entries) > 0
        picked == getMp4Url(ps.quality_urls, c.currentQuality)
        qualityUrl == IF hasMap
                      THEN IF TruthyString(picked) THEN picked
                           ELSE ps.quality_urls.entries[1].v
                      ELSE ps.url
        n1 == [n EXCEPT !.availableQualities =
                            IF hasMap THEN SortQualities(Keys(ps.quality_urls)) ELSE << >>]
    IN  IF ps.type = "iframe" THEN [n EXCEPT !.isLoading = FALSE]
        ELSE IF n.video = NULL THEN n
        ELSE IF ps.type = "mp4"
             THEN IF ~TruthyString(qualityUrl) THEN [n1 EXCEPT !.isLoading = FALSE]
                  ELSE [n1 EXCEPT
                          !.video = AddListener(SetSrcAndLoad(n.video, qualityUrl),
                                                [kind |-> "loaded"]),
                          !.tasks = IF autoplay THEN Append(n.tasks, [kind |-> "autoplay"])
                                    ELSE n.tasks]
        ELSE IF ~browserSupported THEN fallbackToNativeHls(n, c)
        \* new shaka.Player(), then `await player.attach(videoRef.current)`
        ELSE [n EXCEPT !.engines = Append(n.engines, FreshEngine),
                       !.tasks = Append(n.tasks, [kind |-> "attach", closure |-> c,
                                                  engine |-> Len(n.engines) + 1])]

\* cleanupPlayer() up to its first await; `then` is the initPlayer closure
\* that awaits it, or NoClosure when the effect's cleanup calls it
\* the end of cleanupPlayer(): the element is reset, and 150 ms later the
\* awaiting initPlayer (if any) goes on
CleanupPlayerReset(n, then) ==
    IF n.video # NULL
    THEN [n EXCEPT !.video = RemoveSrcAndLoad(n.video),
                   !.tasks = IF then = NoClosure THEN n.tasks
                             ELSE Append(n.tasks, [kind |-> "init", closure |-> then])]
    ELSE IF then = NoClosure THEN n ELSE InitPlayerBody(n, then)

\* cleanupPlayer() up to its first await: with an engine in playerRef that
\* is `await playerRef.current.unload()`, else the wait after the reset
CleanupPlayerCall(n, then) ==
    LET n1 == PauseVideo([n EXCEPT !.isLoading = TRUE, !.lastFallback = NULL])
    IN  IF n1.playerRef # 0
        THEN [n1 EXCEPT !.tasks = Append(n1.tasks, [kind |-> "unload", closure |-> then,
                                                    engine |-> n1.playerRef])]
        ELSE CleanupPlayerReset(n1, then)

\* cleanupPlayer() after one of its engine awaits: the awaited call has
\* taken effect on the engine it was made on, and the next call is made on
\* whatever playerRef.current holds now (on null it throws, which the catch
\* swallows); finally playerRef.current = null
CleanupPlayerResumes(n, task) ==
    LET e == task.engine
        n1 == IF task.kind = "unload"
              THEN [n EXCEPT !.engines[e].loading = FALSE, !.engines[e].loaded = FALSE,
                             !.video = IF n.video # NULL /\ n.engines[e].loaded
                                       THEN RemoveSrcAndLoad(n.video) ELSE n.video]
              ELSE IF task.kind = "detach"
                   THEN [n EXCEPT !.engines[e].loading = FALSE, !.engines[e].loaded = FALSE,
                                  !.engines[e].attached = FALSE]
                   ELSE [n EXCEPT !.engines[e] = [FreshEngine EXCEPT !.alive = FALSE,
                                                                     !.abr = n.engines[e].abr]]
        next == IF task.kind = "unload" THEN "detach" ELSE "destroy"
    IN  IF task.kind = "destroy" \/ n1.playerRef = 0
        THEN CleanupPlayerReset([n1 EXCEPT !.playerRef = 0], task.closure)
        ELSE [n1 EXCEPT !.tasks = Append(n1.tasks, [kind |-> next, closure |-> task.closure,
                                                    engine |-> n1.playerRef])]

(***************************************************************************)
(* Effects.  r is the render whose closures run (its state is read), n the *)
(* world the effects write into; state written is seen by the next render. *)
(***************************************************************************)
\* the body of the default-source effect, run over the memo srcs
DefaultSourceOver(n, srcs) ==
    LET defaultSource ==
            IF \E i \in 1..Len(srcs) : srcs[i].is_default
            THEN srcs[CHOOSE i \in 1..Len(srcs) :
                            /\ srcs[i].is_default
                            /\ \A j \in 1..(i - 1) : ~srcs[j].is_default]
            ELSE srcs[1]
        qualities == SortQualities(Keys(defaultSource.quality_urls))
        initialQuality ==
            IF TruthyString(defaultSource.quality) /\ InSeq(qualities, defaultSource.quality)
            THEN defaultSource.quality
            ELSE IF InSeq(qualities, Q720p) THEN Q720p
            ELSE qualities[(Len(qualities) \div 2) + 1]
        n1 == [n EXCEPT !.isLoading = TRUE, !.accessValidated = FALSE,
                        !.accessError = "none", !.protectedSource = NULL,
                        !.currentSource = defaultSource]
    IN  IF Len(srcs) = 0 THEN n
        ELSE IF /\ defaultSource.type = "mp4"
                /\ Truthy(defaultSource.quality_urls)
                /\ Len(defaultSource.quality_urls.entries) > 0
             THEN [n1 EXCEPT !.availableQualities = qualities,
                             !.currentQuality = initialQuality]
             ELSE n1

\* the default-source effect ([sources, episodeId, movieId])
DefaultSourceEffect(n) == DefaultSourceOver(n, sources)

\* the protected-URL trigger effect ([currentSource, accessType, isLocked,
\* user, fetchProtectedSource, subscriptionLoading, rentalLoading])
ProtectedUrlEffect(r, n) ==
    IF r.subscriptionLoading \/ r.rentalLoading THEN n
    ELSE IF r.currentSource # NULL /\ accessType # "free" /\ ~Locked(r) /\ r.user
         THEN FetchProtectedSourceCall(r, n, r.currentSource)
    ELSE IF r.currentSource # NULL /\ accessType = "free"
         THEN [n EXCEPT !.accessValidated = TRUE, !.protectedSource = r.currentSource]
    ELSE IF r.currentSource # NULL /\ Locked(r)
         THEN [n EXCEPT !.isLoading = FALSE]
    ELSE n

\* its dependencies differ between two renders (fetchProtectedSource is a
\* new function whenever user or currentQuality differ)
ProtectedUrlDeps(a, b) ==
    \/ a.currentSource # b.currentSource
    \/ Locked(a) # Locked(b)
    \/ a.user # b.user
    \/ a.currentQuality # b.currentQuality
    \/ a.subscriptionLoading # b.subscriptionLoading
    \/ a.rentalLoading # b.rentalLoading

\* the cleanup the player-initialisation effect returned, if it returned one
InitPlayerEffectCleanup(n) ==
    IF n.initCleanup THEN CleanupPlayerCall(n, NoClosure) ELSE n

\* the player-initialisation effect ([protectedSource, accessValidated,
\* isLocked, autoplay])
InitPlayerEffect(r, n) ==
    IF r.protectedSource = NULL \/ ~r.accessValidated
    THEN [n EXCEPT !.initCleanup = FALSE]
    ELSE IF Locked(r)
         THEN [n EXCEPT !.isLoading = FALSE, !.initCleanup = FALSE]
         ELSE [CleanupPlayerCall(n, Closure(r)) EXCEPT !.initCleanup = TRUE]

InitPlayerDeps(a, b) ==
    \/ a.protectedSource # b.protectedSource
    \/ a.accessValidated # b.accessValidated
    \/ Locked(a) # Locked(b)

\* React attaches the <video> element exactly while the current source is
\* not an embed; a new element starts fresh, a removed one is gone
RenderVideo(w) ==
    IF w.currentSource # NULL /\ w.currentSource.type # "iframe"
    THEN IF w.video = NULL THEN [w EXCEPT !.video = FreshVideo] ELSE w
    ELSE [w EXCEPT !.video = NULL]

\* One commit: the render of `cur` after the render `prev`, the cleanups of
\* the effects whose dependencies changed, then their bodies in order; the
\* state they set is rendered and committed in turn.
RECURSIVE Commit(_, _)
Commit(prev, cur) ==
    LET r == RenderVideo(cur)
        n0 == IF InitPlayerDeps(prev, r) THEN InitPlayerEffectCleanup(r) ELSE r
        n1 == IF ProtectedUrlDeps(prev, r) THEN ProtectedUrlEffect(r, n0) ELSE n0
        n2 == IF InitPlayerDeps(prev, r) THEN InitPlayerEffect(r, n1) ELSE n1
    IN  IF ProtectedUrlDeps(r, n2) \/ InitPlayerDeps(r, n2) THEN Commit(r, n2) ELSE n2

\* The first commit: every effect runs.
MountCommit(cur) ==
    LET r == RenderVideo(cur)
        \* the bandwidth effect: setInterval(checkBandwidth, 30000)
        b == [r EXCEPT !.timers = r.timers \cup {"bandwidth"}]
        n1 == ProtectedUrlEffect(r, DefaultSourceEffect(b))
        n2 == InitPlayerEffect(r, n1)
    IN  IF ProtectedUrlDeps(r, n2) \/ InitPlayerDeps(r, n2) THEN Commit(r, n2) ELSE n2

(***************************************************************************)
(* Specification SpecNormalize: normalizeType applied to every descriptor  *)
(* of RawTypeInputs x UrlInputs.  The player's own variables stay at their *)
(* values before mount.                                                    *)
(***************************************************************************)
NormalizeInit ==
    /\ ntRawType = Undefined
    /\ ntUrl = Undefined
    /\ ntResult = "none"

NormalizeCall ==
    /\ \E t \in RawTypeInputs, u \in UrlInputs :
          /\ ntRawType' = t
          /\ ntUrl' = u
          /\ ntResult' = normalizeType(t, u)
    /\ UNCHANGED <<propVars, hookVars, stateVars, envVars, pgVars, auxVars>>

(***************************************************************************)
(* Specification SpecProgress: the progress-tracking effect.  saveProgress *)
(* is called by the 10 s interval and by the effect's cleanup; each call   *)
(* reads the element, then makes two backend round trips (select, then     *)
(* update or insert) that other calls may overlap.                         *)
(***************************************************************************)
\* video.duration before the metadata has loaded (a value apart from every
\* number of seconds)
NaN == -1
\* the duration of the media, in seconds, once known
MediaDuration == 60
\* seconds of playback between two looks at the element
PlayedSeconds == 20
\* a position within this many seconds of the end marks the record completed
CompletedMargin == 30
\* calls of saveProgress in one run
MaxSaveCalls == 2
\* rows of watch_history for the viewer and the content
MaxRows == 2

\* no call of saveProgress yet (apart from every duration)
NoCall == -2

\* !video.duration || isNaN(video.duration)
DurationUnknown(d) == d = NaN \/ d = 0

\* savedProgress is null
NoProgress == -1
\* a saved position is resumed only beyond this many seconds
ResumeThreshold == 10

ProgressInit ==
    /\ pgDuration = NaN
    /\ pgTime = 0
    /\ pgSaves = << >>
    /\ pgCalls = 0
    /\ pgLastDuration = NoCall
    /\ savedProgress = NoProgress
    /\ pgLoaded = "pending"
    /\ pgResumed = FALSE

\* the viewer id has resolved with the element mounted, so that the
\* tracking effect has set its interval
Tracked == userId = TRUE /\ pgTracking = TRUE

\* the viewer has no watch_history row for this content
NoHistory == watchHistory = << >>

\* the row an earlier session left at position p
StoredRow(p) ==
    [progress |-> p, duration |-> MediaDuration,
     completed |-> (MediaDuration - p) < CompletedMargin]

\* what earlier sessions may have left: nothing, a row part of the way, a
\* row near the end
StoredHistories == { << >>, <<StoredRow(PlayedSeconds)>>, <<StoredRow(2 * PlayedSeconds)>> }

\* the row maybeSingle() returns: the row when there is exactly one, no data
\* when there is none or when there are several
MaybeSingle(rows) == IF Len(rows) = 1 THEN 1 ELSE 0

\* A plausible slip: the load does not look at the completed flag.
LoadedProgressAnyRecord(data) ==
    IF data # << >> /\ data[1].progress > ResumeThreshold
    THEN data[1].progress ELSE NoProgress

\* what the load effect passes to setSavedProgress for the row data that
\* maybeSingle() returned (<< >>: no data); NoProgress: it makes no call
LoadedProgress(data) ==
    IF data # << >> /\ ~data[1].completed /\ data[1].progress > ResumeThreshold
    THEN data[1].progress ELSE NoProgress

\* the select of the load effect returns; the commit that follows runs the
\* resume effect ([savedProgress, currentSource]), which moves the element
\* when it has data for its position (readyState >= 2) and otherwise leaves
\* savedProgress set
LoadProgress ==
    /\ userId
    /\ pgLoaded = "pending"
    /\ LET data == IF MaybeSingle(watchHistory) # 0
                   THEN <<watchHistory[MaybeSingle(watchHistory)]>> ELSE << >>
           saved == LoadedProgress(data)
       IN  /\ pgLoaded' = IF data = << >> THEN "none"
                          ELSE IF data[1].completed THEN "completed" ELSE "unfinished"
           /\ \E ready \in (IF pgDuration = MediaDuration THEN BOOLEAN ELSE {FALSE}) :
                 IF saved # NoProgress /\ ready
                 THEN /\ pgTime' = saved
                      /\ savedProgress' = NoProgress
                      /\ pgResumed' = TRUE
                 ELSE /\ savedProgress' = saved
                      /\ UNCHANGED <<pgTime, pgResumed>>
    /\ UNCHANGED <<userId, pgDuration, pgTracking, pgSaves, watchHistory, pgCalls,
                   pgLastDuration>>
    /\ UNCHANGED <<ntVars, propVars, hookVars, stateVars, envVars, fsVars, sideVars>>

\* A plausible slip: the guard on the duration is missing.
SaveProgressUnguarded(hasVideo) ==
    IF ~hasVideo THEN pgSaves
    ELSE Append(pgSaves, [stage |-> "select", progress |-> pgTime, duration |-> pgDuration,
                          completed |-> FALSE, existing |-> 0])

\* saveProgress() up to its first await: the runs awaiting the backend after
\* the call.  hasVideo is whether videoRef.current is set.
SaveProgressCall(hasVideo) ==
    IF ~hasVideo \/ DurationUnknown(pgDuration) THEN pgSaves
    ELSE Append(pgSaves, [stage |-> "select", progress |-> pgTime, duration |-> pgDuration,
                          completed |-> (pgDuration - pgTime) < CompletedMargin,
                          existing |-> 0])

\* the interval fires: saveProgress runs on the mounted element
IntervalSave ==
    /\ pgTracking
    /\ pgCalls < MaxSaveCalls
    /\ pgSaves' = SaveProgressCall(TRUE)
    /\ pgCalls' = pgCalls + 1
    /\ pgLastDuration' = pgDuration
    /\ UNCHANGED <<pgDuration, pgTime, pgTracking, watchHistory>>
    /\ UNCHANGED <<ntVars, propVars, hookVars, stateVars, envVars, auxVars>>

\* the effect's cleanup: the interval is cleared and saveProgress runs one
\* last time.  On a change of userId, episodeId or movieId the element is
\* still referenced; on unmount React may have detached the ref already.
ProgressCleanup ==
    /\ pgTracking
    /\ pgCalls < MaxSaveCalls
    /\ pgTracking' = FALSE
    /\ \E hasVideo \in BOOLEAN :
          /\ pgSaves' = SaveProgressCall(hasVideo)
          /\ pgLastDuration' = IF hasVideo THEN pgDuration ELSE NaN
    /\ pgCalls' = pgCalls + 1
    /\ UNCHANGED <<pgDuration, pgTime, watchHistory>>

\* the progress effect is torn down while the player stays as it is
TeardownSave ==
    /\ ProgressCleanup
    /\ UNCHANGED <<ntVars, propVars, hookVars, stateVars, envVars, auxVars>>

\* a run of saveProgress resumes after an await: after the select it issues
\* the update of the row found, or the insert; after the write it ends
SaveProgressResumes ==
    /\ \E i \in 1..Len(pgSaves) :
          LET run == pgSaves[i]
              row == [progress |-> run.progress, duration |-> run.duration,
                      completed |-> run.completed]
          IN  IF run.stage = "select"
              THEN /\ pgSaves' = [pgSaves EXCEPT ![i] =
                                     [run EXCEPT !.stage =
                                                     IF MaybeSingle(watchHistory) # 0
                                                     THEN "update" ELSE "insert",
                                                 !.existing = MaybeSingle(watchHistory)]]
                   /\ UNCHANGED watchHistory
              ELSE /\ pgSaves' = SubSeq(pgSaves, 1, i - 1) \o SubSeq(pgSaves, i + 1, Len(pgSaves))
                   /\ IF run.stage = "update"
                      THEN watchHistory' = [watchHistory EXCEPT ![run.existing] = row]
                      ELSE /\ Len(watchHistory) < MaxRows
                           /\ watchHistory' = Append(watchHistory, row)
    /\ UNCHANGED <<pgDuration, pgTime, pgTracking, pgCalls, pgLastDuration>>
    /\ UNCHANGED <<ntVars, propVars, hookVars, stateVars, envVars, auxVars>>

\* the element learns its duration (loadedmetadata), or loses it when a new
\* resource is loaded
DurationChange ==
    /\ \E d \in {NaN, 0, MediaDuration} :
          /\ d # pgDuration
          /\ pgDuration' = d
          /\ pgTime' = IF d = MediaDuration THEN pgTime ELSE 0
    /\ UNCHANGED <<pgTracking, pgSaves, watchHistory, pgCalls, pgLastDuration>>
    /\ UNCHANGED <<ntVars, propVars, hookVars, stateVars, envVars, auxVars>>

\* playback advances
ProgressTick ==
    /\ pgDuration = MediaDuration
    /\ pgTime + PlayedSeconds <= pgDuration
    /\ pgTime' = pgTime + PlayedSeconds
    /\ UNCHANGED <<pgDuration, pgTracking, pgSaves, watchHistory, pgCalls, pgLastDuration>>
    /\ UNCHANGED <<ntVars, propVars, hookVars, stateVars, envVars, auxVars>>

NextProgress ==
    \/ LoadProgress
    \/ IntervalSave
    \/ TeardownSave
    \/ SaveProgressResumes
    \/ DurationChange
    \/ ProgressTick

(***************************************************************************)
(* Specification SpecFullscreen: toggleFullscreen and the fullscreenchange *)
(* listener of ShakaPlayer.  An orientation lock is asked of the shell at  *)
(* the moment lockLandscape or lockPortrait is called, and the shell       *)
(* applies the locks in the order asked.                                   *)
(***************************************************************************)
MaxToggles == 3

MaxPending == 2

FullscreenInit ==
    /\ fsElement = FALSE
    /\ isFullscreen = FALSE
    /\ fsPending = << >>
    /\ lastLock = "none"
    /\ fsToggles = 0

\* lockLandscape() / lockPortrait() behind `if (isNative && isAndroid)`
LockOrientation(orientation) ==
    lastLock' = IF nativeAndroid THEN orientation ELSE lastLock

\* toggleFullscreen() up to its await.  Without requestFullscreen (or
\* exitFullscreen) the handler does not wait and goes on to the lock.
ToggleFullscreen ==
    /\ phase = "mounted"
    /\ currentSource # NULL
    /\ fsToggles < MaxToggles
    /\ fsToggles' = fsToggles + 1
    /\ IF fsApi
       THEN /\ Len(fsPending) < MaxPending
            /\ fsPending' = Append(fsPending, IF isFullscreen THEN "exit" ELSE "request")
            /\ UNCHANGED lastLock
       ELSE /\ LockOrientation(IF isFullscreen THEN "portrait" ELSE "landscape")
            /\ UNCHANGED fsPending
    /\ UNCHANGED <<nativeAndroid, fsApi, fsElement, isFullscreen>>
    /\ UNCHANGED <<ntVars, propVars, hookVars, stateVars, envVars, pgVars, rsVars, sideVars>>

\* handleFullscreenChange, run by the listener while the component is
\* mounted, with document.fullscreenElement as the event finds it
HandleFullscreenChange(isNowFullscreen) ==
    /\ isFullscreen' = isNowFullscreen
    /\ LockOrientation(IF isNowFullscreen THEN "landscape" ELSE "portrait")

\* the browser settles a pending requestFullscreen() or exitFullscreen():
\* a change of document.fullscreenElement fires fullscreenchange and then
\* fulfils the promise, so that toggleFullscreen goes on to its own lock;
\* a request on an element that is fullscreen already is fulfilled without
\* an event; a request the browser denies, a request on a removed element
\* and an exit from a document that is not fullscreen are rejected, which
\* ends toggleFullscreen.
FullscreenSettles ==
    /\ fsPending # << >>
    /\ fsPending' = Tail(fsPending)
    /\ \E granted \in BOOLEAN :
          LET request == Head(fsPending) = "request"
              fulfilled == IF request THEN granted /\ phase = "mounted" ELSE fsElement
              changed == fulfilled /\ (fsElement # request)
          IN  /\ fsElement' = IF fulfilled THEN request ELSE fsElement
              /\ IF fulfilled
                 THEN /\ LockOrientation(IF request THEN "landscape" ELSE "portrait")
                      /\ isFullscreen' = IF changed /\ phase = "mounted" THEN request
                                         ELSE isFullscreen
                 ELSE UNCHANGED <<lastLock, isFullscreen>>
    /\ UNCHANGED <<nativeAndroid, fsApi, fsToggles>>
    /\ UNCHANGED <<ntVars, propVars, hookVars, stateVars, envVars, pgVars, rsVars, sideVars>>

\* the viewer leaves fullscreen with the system's back gesture
FullscreenLeft ==
    /\ phase = "mounted"
    /\ fsElement
    /\ fsElement' = FALSE
    /\ HandleFullscreenChange(FALSE)
    /\ UNCHANGED <<nativeAndroid, fsApi, fsPending, fsToggles>>
    /\ UNCHANGED <<ntVars, propVars, hookVars, stateVars, envVars, pgVars, rsVars, sideVars>>

\* the cleanup of the fullscreen effect, on unmount: the listener goes, the
\* portrait lock is asked for; the browser leaves fullscreen when the
\* container is removed from the document
FullscreenEffectCleanup ==
    /\ LockOrientation("portrait")
    /\ fsElement' = FALSE
    /\ UNCHANGED <<nativeAndroid, fsApi, isFullscreen, fsPending, fsToggles>>

(***************************************************************************)
(* Specification SpecSettings: the save handlers of the admin pages        *)
(* SettingsGeneral and SettingsLogo.  A backend call returns data or an    *)
(* error object; it does not throw.                                        *)
(***************************************************************************)
LogoKeys == <<"site_logo_light", "site_logo_dark", "site_favicon">>

\* the keys of the files chosen, in the order handleSubmit writes them
RECURSIVE KeysOf(_, _)
KeysOf(files, i) ==
    IF i > Len(LogoKeys) THEN << >>
    ELSE (IF LogoKeys[i] \in files THEN <<LogoKeys[i]>> ELSE << >>) \o KeysOf(files, i + 1)

SettingsInit ==
    /\ stPage = "none"
    /\ stQueue = << >>
    /\ stStage = "idle"
    /\ stExisting = FALSE
    /\ siteSettings = {}
    /\ isSaving = FALSE
    /\ isSubmitting = FALSE
    /\ toast = "none"
    /\ stWriteFailed = FALSE

\* SettingsGeneral.handleSave up to its first await
HandleSave ==
    /\ stStage = "idle"
    /\ stPage' = "general"
    /\ isSaving' = TRUE
    /\ stQueue' = <<"general_settings">>
    /\ stStage' = "select"
    /\ toast' = "none"
    /\ stWriteFailed' = FALSE
    /\ UNCHANGED <<stExisting, siteSettings, isSubmitting>>
    /\ UNCHANGED <<ntVars, propVars, hookVars, stateVars, envVars, pgVars, fsVars, rsVars,
                   parentVars, mvVars>>

\* SettingsLogo.handleSubmit up to its first await, for the files chosen
HandleSubmit ==
    /\ stStage = "idle"
    /\ stPage' = "logo"
    /\ stWriteFailed' = FALSE
    /\ \E files \in SUBSET {LogoKeys[i] : i \in 1..Len(LogoKeys)} :
          IF files = {}
          THEN /\ toast' = "error"
               /\ UNCHANGED <<stQueue, stStage, isSubmitting>>
          ELSE /\ toast' = "none"
               /\ isSubmitting' = TRUE
               /\ stQueue' = KeysOf(files, 1)
               /\ stStage' = "select"
    /\ UNCHANGED <<stExisting, siteSettings, isSaving>>
    /\ UNCHANGED <<ntVars, propVars, hookVars, stateVars, envVars, pgVars, fsVars, rsVars,
                   parentVars, mvVars>>

\* the select of the row id returns: the row, or no data (no row, or an
\* error of the backend)
SettingSelected ==
    /\ stStage = "select"
    /\ stStage' = "write"
    /\ \E answered \in BOOLEAN : stExisting' = (answered /\ Head(stQueue) \in siteSettings)
    /\ UNCHANGED <<stPage, stQueue, siteSettings, isSaving, isSubmitting, toast,
                   stWriteFailed>>
    /\ UNCHANGED <<ntVars, propVars, hookVars, stateVars, envVars, pgVars, fsVars, rsVars,
                   parentVars, mvVars>>

\* the run has written its last key or has thrown: the notification, then
\* the finally block
SettingsRunEnds(notification) ==
    /\ toast' = notification
    /\ stStage' = "idle"
    /\ stQueue' = << >>
    /\ isSaving' = IF stPage = "general" THEN FALSE ELSE isSaving
    /\ isSubmitting' = IF stPage = "logo" THEN FALSE ELSE isSubmitting

\* the update or insert returns, with an error or without.  handleSave
\* throws the error; upsertSetting does not look at what the write returns.
SettingWritten ==
    /\ stStage = "write"
    /\ \E error \in BOOLEAN :
          /\ siteSettings' = IF error THEN siteSettings
                             ELSE siteSettings \cup {Head(stQueue)}
          /\ stWriteFailed' = (stWriteFailed \/ error)
          /\ IF stPage = "general" /\ error
             THEN SettingsRunEnds("error")
             ELSE IF Len(stQueue) = 1
                  THEN SettingsRunEnds("success")
                  ELSE /\ stQueue' = Tail(stQueue)
                       /\ stStage' = "select"
                       /\ UNCHANGED <<isSaving, isSubmitting, toast>>
    /\ UNCHANGED <<stPage, stExisting>>
    /\ UNCHANGED <<ntVars, propVars, hookVars, stateVars, envVars, pgVars, fsVars, rsVars,
                   parentVars, mvVars>>

NextSettings ==
    \/ HandleSave
    \/ HandleSubmit
    \/ SettingSelected
    \/ SettingWritten

(***************************************************************************)
(* Specification SpecMobile: the source-initialisation effect of           *)
(* MobileVideoPlayer ([videoUrl, sourceType, autoplay]).                   *)
(***************************************************************************)
MaxSourceChanges == 2

\* the values of the props videoUrl, sourceType and autoplay
MobileProps == {"u1", "u2"} \X {"hls", "mp4"} \X BOOLEAN

MobileInit ==
    /\ mvPhase = "created"
    /\ mvVideoUrl = "none"
    /\ mvSourceType = "none"
    /\ mvAutoplay = FALSE
    /\ hlsSupported = FALSE
    /\ hlsRef = 0
    /\ hlsInstances = << >>
    /\ metadataListeners = << >>
    /\ playAttempts = 0
    /\ mvChanges = 0

\* hlsRef.current.destroy(); hlsRef.current = null, under `if (hlsRef.current)`:
\* the instances after it, for the instances and the ref before it
DestroyHls(instances, ref) ==
    IF ref # 0 THEN [instances EXCEPT ![ref] = FALSE] ELSE instances

\* the body of the effect for a non-empty videoUrl: the instance in hlsRef
\* is destroyed; then either a new Hls is built, attached and kept in
\* hlsRef, or the URL is set on the element and an anonymous
\* loadedmetadata listener is added
MobileInitEffect(instances, ref, listeners, sourceType, play, supported) ==
    IF sourceType = "hls" /\ supported
    THEN [instances |-> Append(DestroyHls(instances, ref), TRUE),
          ref |-> Len(instances) + 1,
          listeners |-> listeners]
    ELSE [instances |-> DestroyHls(instances, ref), ref |-> 0,
          listeners |-> Append(listeners, play)]

\* MobileVideoPlayer mounts with some props, in a browser where hls.js
\* works or does not
MobileMount ==
    /\ mvPhase = "created"
    /\ mvPhase' = "mounted"
    /\ \E props \in MobileProps, supported \in BOOLEAN :
          LET e == MobileInitEffect(hlsInstances, hlsRef, metadataListeners,
                                    props[2], props[3], supported)
          IN  /\ mvVideoUrl' = props[1]
              /\ mvSourceType' = props[2]
              /\ mvAutoplay' = props[3]
              /\ hlsSupported' = supported
              /\ hlsInstances' = e.instances
              /\ hlsRef' = e.ref
              /\ metadataListeners' = e.listeners
    /\ UNCHANGED <<playAttempts, mvChanges>>
    /\ UNCHANGED <<ntVars, propVars, hookVars, stateVars, envVars, pgVars, fsVars, rsVars,
                   parentVars, stVars>>

\* the parent passes props of which one differs: the cleanup of the effect
\* (destroy the instance in hlsRef), then its body with the new props
MobilePropsChange ==
    /\ mvPhase = "mounted"
    /\ mvChanges < MaxSourceChanges
    /\ mvChanges' = mvChanges + 1
    /\ \E props \in MobileProps \ {<<mvVideoUrl, mvSourceType, mvAutoplay>>} :
          LET e == MobileInitEffect(DestroyHls(hlsInstances, hlsRef), 0, metadataListeners,
                                    props[2], props[3], hlsSupported)
          IN  /\ mvVideoUrl' = props[1]
              /\ mvSourceType' = props[2]
              /\ mvAutoplay' = props[3]
              /\ hlsInstances' = e.instances
              /\ hlsRef' = e.ref
              /\ metadataListeners' = e.listeners
    /\ UNCHANGED <<mvPhase, hlsSupported, playAttempts>>
    /\ UNCHANGED <<ntVars, propVars, hookVars, stateVars, envVars, pgVars, fsVars, rsVars,
                   parentVars, stVars>>

\* the element fires loadedmetadata: every listener added so far runs and
\* calls play() when the autoplay it closed over is true
MobileMetadata ==
    /\ mvPhase = "mounted"
    /\ metadataListeners # << >>
    /\ playAttempts' = Cardinality({i \in 1..Len(metadataListeners) : metadataListeners[i]})
    /\ playAttempts' # playAttempts
    /\ UNCHANGED <<mvPhase, mvVideoUrl, mvSourceType, mvAutoplay, hlsSupported, hlsRef,
                   hlsInstances, metadataListeners, mvChanges>>
    /\ UNCHANGED <<ntVars, propVars, hookVars, stateVars, envVars, pgVars, fsVars, rsVars,
                   parentVars, stVars>>

\* MobileVideoPlayer unmounts: the cleanup of the effect runs and React
\* drops the media element with its listeners
MobileUnmount ==
    /\ mvPhase = "mounted"
    /\ mvPhase' = "unmounted"
    /\ hlsInstances' = DestroyHls(hlsInstances, hlsRef)
    /\ hlsRef' = 0
    /\ metadataListeners' = << >>
    /\ UNCHANGED <<mvVideoUrl, mvSourceType, mvAutoplay, hlsSupported, playAttempts,
                   mvChanges>>
    /\ UNCHANGED <<ntVars, propVars, hookVars, stateVars, envVars, pgVars, fsVars, rsVars,
                   parentVars, stVars>>

NextMobile ==
    \/ MobileMount
    \/ MobilePropsChange
    \/ MobileMetadata
    \/ MobileUnmount

(***************************************************************************)
(* The player                                                              *)
(***************************************************************************)
\* no quality switch awaits its restore
NoSwitch == [none |-> TRUE]

\* the raw descriptors of the pages the model plays
RawFile == RawSource("A", TagMp4, UrlMp4, TwoQualities, NoMap, Undefined, TRUE)
RawPlainFile == RawSource("B", TagMp4Padded, UrlMp4Upper, NoMap, NoMap, Undefined, FALSE)
RawEmbed == RawSource("C", TagEmbed, UrlYoutuBe, NoMap, NoMap, Undefined, FALSE)
RawEmbedSentinel == RawSource("D", TagIframeMixed, UrlPlayer, SentinelMap, NoMap, Undefined, FALSE)
RawEmbedAltMap == RawSource("E", Undefined, UrlEmbedPath, NullMap, OneQuality, Undefined, TRUE)
RawEmbedEmptyMap == RawSource("F", TagEmpty, UrlYoutube, EmptyMap, TwoQualities, Undefined, FALSE)
RawEmbedArray == RawSource("G", TagEmbed, UrlYoutuBe, ArrayMap, NoMap, Undefined, FALSE)
RawEmbedTagged == RawSource("H", TagEmbed, UrlYoutuBe, TaggedQualities, NoMap, Undefined, FALSE)

RawHls == RawSource("A", TagHlsUpper, UrlM3u8, NoMap, NoMap, Undefined, TRUE)
RawDash == RawSource("B", Undefined, UrlMpd, NoMap, NoMap, Undefined, FALSE)

\* pages whose servers are adaptive streams
AdaptiveLists == { <<RawHls, RawDash>> }

SourceLists ==
    { <<RawFile, RawPlainFile>>,
      <<RawEmbed, RawFile>>,
      <<RawEmbedSentinel, RawEmbedAltMap>>,
      <<RawEmbedEmptyMap, RawEmbedArray, RawEmbedTagged>> }

\* the state before mount, whatever the page and the browser
PlayerInit ==
    /\ NormalizeInit
    /\ ProgressInit
    /\ FullscreenInit
    /\ SettingsInit
    /\ MobileInit
    /\ accessType \in {"free", "rent", "vip"}
    /\ excludeFromPlan \in BOOLEAN
    \* VideoPlayer, the one caller in the repository, passes autoplay = false;
    \* autoplay = true is played on free content
    /\ autoplay \in (IF accessType = "free" THEN BOOLEAN ELSE {FALSE})
    /\ user \in BOOLEAN
    /\ subscriptionLoading = TRUE
    /\ rentalLoading = TRUE
    /\ hasActiveSubscription = FALSE
    /\ hasActiveRental = FALSE
    /\ currentSource = NULL
    /\ protectedSource = NULL
    /\ accessValidated = FALSE
    /\ accessError = "none"
    /\ isLoading = TRUE
    /\ currentQuality = Q720p
    /\ availableQualities = << >>
    /\ isPlaying = FALSE
    /\ phase = "created"
    /\ video = NULL
    /\ inflight = << >>
    /\ tasks = << >>
    /\ initCleanup = FALSE
    /\ viewerActions = 0
    /\ qualitySwitch = NoSwitch
    /\ serverSwitch = NoSwitch
    /\ autoQualityEnabled = TRUE
    /\ playerRef = 0
    /\ engines = << >>
    /\ manualQuality = FALSE
    /\ lastFallback = NULL
    /\ timers = {}
    /\ showControls = TRUE
    /\ controlsPlaying = FALSE
    /\ sourcesGen = 0

\* pages of files and embeds, in a browser the streaming engine supports
Init ==
    /\ PlayerInit
    /\ videoSources \in SourceLists
    /\ browserSupported = TRUE
    /\ nativeAndroid = FALSE
    /\ fsApi = TRUE
    /\ Tracked
    /\ NoHistory

\* free pages of adaptive streams, in a browser the engine supports or not
InitAdaptive ==
    /\ PlayerInit
    /\ videoSources \in AdaptiveLists
    /\ browserSupported \in BOOLEAN
    /\ nativeAndroid = FALSE
    /\ fsApi = TRUE
    /\ Tracked
    /\ NoHistory
    /\ accessType = "free"
    /\ ~excludeFromPlan
    /\ user

\* the outcome w of an event is committed, if it stays within the bounds
Step(w) ==
    /\ WithinBounds(w)
    /\ Becomes(w)
    /\ UNCHANGED <<ntVars, propVars, phase, viewerActions, pgVars, auxVars>>

\* the outcome w of an action of the viewer is committed
ViewerStep(w) ==
    /\ viewerActions < MaxViewerActions
    /\ viewerActions' = viewerActions + 1
    /\ WithinBounds(w)
    /\ Becomes(w)
    /\ UNCHANGED <<ntVars, propVars, phase, pgVars, auxVars>>

\* the component mounts: first render and first run of every effect
Mount ==
    /\ phase = "created"
    /\ phase' = "mounted"
    /\ Becomes(MountCommit(World))
    /\ UNCHANGED <<ntVars, propVars, viewerActions, pgVars, auxVars>>

\* useSubscription finishes loading
SubscriptionLoaded ==
    /\ phase = "mounted"
    /\ subscriptionLoading
    /\ \E active \in BOOLEAN :
          Step(Commit(World, [World EXCEPT !.subscriptionLoading = FALSE,
                                           !.hasActiveSubscription = active]))

\* useRental finishes loading
RentalLoaded ==
    /\ phase = "mounted"
    /\ rentalLoading
    /\ \E active \in BOOLEAN :
          Step(Commit(World, [World EXCEPT !.rentalLoading = FALSE,
                                           !.hasActiveRental = active]))

\* s without its i-th element
RemoveAt(s, i) == SubSeq(s, 1, i - 1) \o SubSeq(s, i + 1, Len(s))

\* a call of getProtectedUrl returns, with success or with failure
ProtectedUrlResponse ==
    /\ phase = "mounted"
    /\ \E i \in 1..Len(inflight), success \in BOOLEAN :
          LET n == [World EXCEPT !.inflight = RemoveAt(inflight, i)]
          IN  Step(Commit(World, IF success THEN FetchSucceeded(n, inflight[i])
                                 ELSE FetchFailed(n)))

\* nothing is pending when the viewer acts: no fetch in flight, no timer set,
\* and the element has its media
Settled(w) == w.inflight = << >> /\ w.tasks = << >> /\ w.video.ready

\* the cleanup of the video-listeners effect ([currentSource, onEnded]),
\* which the effect returns when it found a media element in render prev
ListenersEffectCleanup(prev, n) ==
    IF prev.video # NULL THEN [n EXCEPT !.timers = n.timers \ {"autoHide"}] ELSE n

\* handleServerChange(source) up to its await; nothing follows the await.
\* wasPlaying and savedTime are computed by the handler and never used.
\* The commit of a new currentSource runs the cleanup of the video-listeners
\* effect, the one effect besides those of Commit that depends on it.
ServerChange(w, source) ==
    LET fromVideo == /\ w.video # NULL
                     /\ w.currentSource # NULL
                     /\ w.currentSource.type # "iframe"
        wasPlaying == IF fromVideo THEN ~w.video.paused ELSE FALSE
        savedTime == IF fromVideo THEN w.video.time ELSE 0
        n == [w EXCEPT !.currentSource = source, !.accessValidated = FALSE,
                       !.protectedSource = NULL, !.qualitySwitch = NoSwitch,
                       !.timers = IF source # w.currentSource
                                  THEN ListenersEffectCleanup(w, w).timers
                                  ELSE w.timers,
                       !.serverSwitch =
                           IF fromVideo /\ source.type # "iframe"
                           THEN [savedTime |-> savedTime, wasPlaying |-> wasPlaying,
                                 settled |-> Settled(w)]
                           ELSE NoSwitch]
    IN  IF accessType # "free" /\ w.user THEN FetchProtectedSourceCall(w, n, source)
        ELSE IF accessType = "free"
             THEN [n EXCEPT !.protectedSource = source, !.accessValidated = TRUE]
        ELSE n

\* the viewer picks a server in one of the two server menus, which are
\* rendered once a source is selected and the list has several servers.  The
\* menu over the video (z-50) lies under the lock overlay (z-[60]); the menu
\* over an embed frame (z-[9999]) lies above it.
HandleServerChange ==
    /\ phase = "mounted"
    /\ currentSource # NULL
    /\ Len(sources) > 1
    /\ currentSource.type = "iframe" \/ ~isLocked
    /\ \E i \in 1..Len(sources) : ViewerStep(Commit(World, ServerChange(World, sources[i])))

\* handleQualityChange(quality), file branch, for a quality that has a URL
QualityChange(w, quality) ==
    LET wasPlaying == ~w.video.paused
        savedTime == w.video.time
        qualityUrl == getMp4Url(w.protectedSource.quality_urls, quality)
        onCanPlay == [kind |-> "restore", savedTime |-> savedTime, wasPlaying |-> wasPlaying]
    IN  [w EXCEPT !.currentQuality = quality,
                  !.manualQuality = TRUE,
                  !.video = SetSrcAndLoad(AddListener(w.video, onCanPlay), qualityUrl),
                  !.serverSwitch = NoSwitch,
                  !.qualitySwitch = [savedTime |-> savedTime, wasPlaying |-> wasPlaying,
                                     settled |-> Settled(w)]]

\* handleQualityChange(quality), hls/dash branch, with an engine in
\* playerRef: a track of that height exists once the engine has loaded
QualityChangeAdaptive(w, quality) ==
    LET tracks == IF w.engines[w.playerRef].loaded THEN TrackHeights ELSE << >>
        targetHeight == ParseInt(quality)
    IN  IF \E i \in 1..Len(tracks) : tracks[i] = targetHeight
        THEN [w EXCEPT !.autoQualityEnabled = FALSE,
                       !.engines[w.playerRef].abr = FALSE,
                       !.currentQuality = quality,
                       !.manualQuality = TRUE]
        ELSE w

\* the viewer picks one of the offered qualities in the settings menu; the
\* controls (z-40) lie under the loading overlay (z-50) and the lock overlay
HandleQualityChange ==
    /\ phase = "mounted"
    /\ ~isLoading
    /\ ~isLocked
    /\ protectedSource # NULL
    /\ video # NULL
    /\ \E i \in 1..Len(availableQualities) :
          \/ /\ protectedSource.type = "mp4"
             /\ Truthy(protectedSource.quality_urls)
             /\ TruthyString(getMp4Url(protectedSource.quality_urls, availableQualities[i]))
             /\ ViewerStep(Commit(World, QualityChange(World, availableQualities[i])))
          \/ /\ protectedSource.type \in {"hls", "dash"}
             /\ playerRef # 0
             /\ ViewerStep(Commit(World, QualityChangeAdaptive(World, availableQualities[i])))

\* onAutoQualityToggle: the viewer switches automatic mode back on in the
\* settings menu
AutoQualityToggle ==
    /\ phase = "mounted"
    /\ ~isLoading
    /\ ~isLocked
    /\ video # NULL
    /\ LET w == [World EXCEPT !.autoQualityEnabled = TRUE, !.manualQuality = FALSE]
       IN  ViewerStep(Commit(World, IF playerRef # 0
                                    THEN [w EXCEPT !.engines[playerRef].abr = TRUE]
                                    ELSE w))

\* a suspended run resumes: initPlayer after the 150 ms of cleanupPlayer,
\* after attach or after load (fulfilled or rejected), cleanupPlayer after
\* unload, detach or destroy, or the 100 ms autoplay timeout.  Timers of one
\* delay and continuations of one kind run in the order set.
TaskRuns ==
    /\ phase # "created"
    /\ \E i \in 1..Len(tasks) :
          /\ \A j \in 1..(i - 1) : tasks[j].kind # tasks[i].kind
          /\ LET n == [World EXCEPT !.tasks = RemoveAt(tasks, i)]
             IN  \E ok \in BOOLEAN :
                    /\ (tasks[i].kind # "load") => ok
                    /\ LET w == CASE tasks[i].kind = "init" ->
                                        InitPlayerBody(n, tasks[i].closure)
                                  [] tasks[i].kind = "autoplay" -> PlayVideo(n)
                                  [] tasks[i].kind = "attach" ->
                                        InitPlayerAttached(n, tasks[i])
                                  [] tasks[i].kind = "load" ->
                                        InitPlayerLoaded(n, tasks[i], ok)
                                  [] OTHER -> CleanupPlayerResumes(n, tasks[i])
                       \* an unmounted component renders no more
                       IN  Step(IF phase = "mounted" THEN Commit(World, w) ELSE w)

\* one canplay listener runs
RunListener(w, l) ==
    IF l.kind = "loaded" THEN [w EXCEPT !.isLoading = FALSE]
    ELSE LET w1 == [w EXCEPT !.video.time = l.savedTime]
         IN  IF l.wasPlaying THEN PlayVideo(w1) ELSE w1

RECURSIVE RunListeners(_, _)
RunListeners(w, ls) ==
    IF ls = << >> THEN w ELSE RunListeners(RunListener(w, Head(ls)), Tail(ls))

\* the media element has loaded enough of its resource: canplay is fired,
\* the listeners run in the order registered, and (being once) are removed
CanPlay ==
    /\ phase = "mounted"
    /\ video # NULL
    /\ video.src # Undefined
    /\ ~video.ready
    /\ Step(Commit(World, RunListeners([World EXCEPT !.video.ready = TRUE,
                                                     !.video.listeners = << >>],
                                       video.listeners)))

\* playback advances by one position
Tick ==
    /\ phase = "mounted"
    /\ video # NULL
    /\ video.ready
    /\ ~video.paused
    /\ video.time < MaxTime
    /\ Step([World EXCEPT !.video.time = video.time + 1, !.qualitySwitch = NoSwitch,
                          !.serverSwitch = NoSwitch])

\* togglePlayPause, reached through the centre button (rendered while the
\* content is not locked); it sets the 500 ms centre-icon timeout and, when
\* it starts playback, the 5 s auto-hide timeout
TogglePlayPause ==
    /\ phase = "mounted"
    /\ video # NULL
    /\ ~isLocked
    /\ LET w == [World EXCEPT !.qualitySwitch = NoSwitch, !.serverSwitch = NoSwitch]
           toggled == IF isPlaying THEN [PauseVideo(w) EXCEPT !.showControls = TRUE]
                      ELSE [PlayVideo(w) EXCEPT !.timers = @ \cup {"autoHide"}]
       IN  ViewerStep(Commit(World, [toggled EXCEPT !.timers = @ \cup {"centerIcon"}]))

Next ==
    \/ Mount
    \/ SubscriptionLoaded
    \/ RentalLoaded
    \/ ProtectedUrlResponse
    \/ HandleServerChange
    \/ HandleQualityChange
    \/ TaskRuns
    \/ CanPlay
    \/ Tick
    \/ TogglePlayPause

Spec == Init /\ [][Next]_vars

\* the player on free pages of adaptive streams: no exchange is made
NextAdaptive ==
    \/ Mount
    \/ SubscriptionLoaded
    \/ RentalLoaded
    \/ HandleServerChange
    \/ HandleQualityChange
    \/ AutoQualityToggle
    \/ TaskRuns
    \/ CanPlay
    \/ Tick
    \/ TogglePlayPause

SpecAdaptive == InitAdaptive /\ [][NextAdaptive]_vars

\* handleMouseMove: the pointer moves over the player (rendered once a
\* source is selected); the 3 s controls timeout is set anew
HandleMouseMove ==
    /\ phase = "mounted"
    /\ currentSource # NULL
    /\ ViewerStep([World EXCEPT !.showControls = TRUE,
                                !.timers = @ \cup {"controls"},
                                !.controlsPlaying = isPlaying])

\* onMouseLeave: the pointer leaves the player
HandleMouseLeave ==
    /\ phase = "mounted"
    /\ currentSource # NULL
    /\ isPlaying
    /\ showControls
    /\ Step([World EXCEPT !.showControls = FALSE])

\* handleSleepTimerChange(minutes), from the settings menu: the timeout is
\* cleared, and set anew when minutes > 0
HandleSleepTimerChange ==
    /\ phase = "mounted"
    /\ ~isLoading
    /\ ~isLocked
    /\ video # NULL
    /\ \E minutes \in {0, 15} :
          ViewerStep([World EXCEPT !.timers = IF minutes > 0 THEN @ \cup {"sleep"}
                                              ELSE @ \ {"sleep"}])

\* a timeout fires (an interval stays set): the sleep timer pauses the
\* element, the auto-hide timeout hides the controls, the controls timeout
\* hides them when the isPlaying it closed over is true; state set after
\* unmount is dropped
TimerFires ==
    /\ phase # "created"
    /\ \E t \in timers \ {"bandwidth"} :
          LET w == [World EXCEPT !.timers = @ \ {t},
                                 !.controlsPlaying = IF t = "controls" THEN FALSE ELSE @]
              hides == \/ t = "autoHide"
                       \/ t = "controls" /\ controlsPlaying
              fired == IF t = "sleep" THEN PauseVideo(w)
                       ELSE IF hides /\ phase = "mounted"
                            THEN [w EXCEPT !.showControls = FALSE]
                       ELSE w
          IN  Step(IF phase = "mounted" THEN Commit(World, fired) ELSE fired)

\* the component unmounts: React detaches the element from videoRef and
\* runs the cleanup of every effect that returned one
Unmount ==
    /\ phase = "mounted"
    /\ phase' = "unmounted"
    /\ IF pgTracking THEN ProgressCleanup ELSE UNCHANGED pgVars
    /\ LET detached == [World EXCEPT !.video = NULL,
                                     !.timers = @ \ {"bandwidth", "sleep"}]
       IN  Becomes(InitPlayerEffectCleanup(ListenersEffectCleanup(World, detached)))
    /\ FullscreenEffectCleanup
    /\ UNCHANGED <<ntVars, propVars, viewerActions, rsVars, sideVars>>

\* the player on free pages of adaptive streams, from mount to unmount
NextTeardown ==
    \/ NextAdaptive
    \/ HandleMouseMove
    \/ HandleMouseLeave
    \/ HandleSleepTimerChange
    \/ TimerFires
    \/ Unmount

SpecTeardown == InitAdaptive /\ [][NextTeardown]_vars

\* a free page of files in the Android shell, whose WebView has the
\* fullscreen API or lacks it
InitFullscreen ==
    /\ PlayerInit
    /\ videoSources = <<RawFile, RawPlainFile>>
    /\ browserSupported = TRUE
    /\ accessType = "free"
    /\ ~excludeFromPlan
    /\ ~autoplay
    /\ user
    /\ nativeAndroid = TRUE
    /\ fsApi \in BOOLEAN
    /\ Tracked
    /\ NoHistory

NextFullscreen ==
    \/ Mount
    \/ TogglePlayPause
    \/ ToggleFullscreen
    \/ FullscreenSettles
    \/ FullscreenLeft
    \/ Unmount

SpecFullscreen == InitFullscreen /\ [][NextFullscreen]_vars

\* free pages that mix an embed and a file, with the file or the embed as
\* the default server; the viewer id has not resolved yet
TrackingLists == { <<RawEmbed, RawFile>>, <<RawEmbedAltMap, RawPlainFile>> }

InitTracking ==
    /\ PlayerInit
    /\ videoSources \in TrackingLists
    /\ browserSupported = TRUE
    /\ nativeAndroid = FALSE
    /\ fsApi = TRUE
    /\ accessType = "free"
    /\ ~excludeFromPlan
    /\ ~autoplay
    /\ user
    /\ userId = FALSE
    /\ pgTracking = FALSE
    /\ NoHistory

\* supabase.auth.getUser() resolves with the viewer: setUserId, and in the
\* commit that follows the tracking effect ([userId, episodeId, movieId])
\* runs, which sets the interval only when videoRef.current is set.  The
\* select that follows finds no row: the viewer has none and the interval
\* has not fired yet.
UserIdResolves ==
    /\ phase = "mounted"
    /\ ~userId
    /\ userId' = TRUE
    /\ pgTracking' = (video # NULL)
    /\ pgLoaded' = "none"
    /\ UNCHANGED <<savedProgress, pgResumed>>
    /\ UNCHANGED <<pgDuration, pgTime, pgSaves, watchHistory, pgCalls, pgLastDuration>>
    /\ UNCHANGED <<ntVars, propVars, hookVars, stateVars, envVars, fsVars, sideVars>>

\* the interval fires in the mounted player: saveProgress runs on whatever
\* videoRef.current is now
TrackedSave ==
    /\ phase = "mounted"
    /\ pgTracking
    /\ pgCalls < MaxSaveCalls
    /\ pgSaves' = SaveProgressCall(video # NULL)
    /\ pgCalls' = pgCalls + 1
    /\ pgLastDuration' = IF video # NULL THEN pgDuration ELSE NaN
    /\ UNCHANGED <<pgDuration, pgTime, pgTracking, watchHistory>>
    /\ UNCHANGED <<ntVars, propVars, hookVars, stateVars, envVars, auxVars>>

NextTracking ==
    \/ Mount
    \/ SubscriptionLoaded
    \/ RentalLoaded
    \/ HandleServerChange
    \/ TaskRuns
    \/ CanPlay
    \/ UserIdResolves
    \/ TrackedSave
    \/ SaveProgressResumes
    \/ DurationChange

SpecTracking == InitTracking /\ [][NextTracking]_vars

MaxRerenders == 1

\* the parent VideoPlayer renders again with the same page data: the
\* sources memo is recomputed (part_000 builds convertedSources anew), the
\* default-source effect runs over it, and the state it sets is committed;
\* a new currentSource runs the cleanup of the video-listeners effect
ParentRerender ==
    /\ phase = "mounted"
    /\ sourcesGen < MaxRerenders
    /\ sourcesGen' = sourcesGen + 1
    /\ LET n == DefaultSourceOver(World, SourcesOf(sourcesGen + 1))
           w == IF n.currentSource # currentSource THEN ListenersEffectCleanup(World, n)
                ELSE n
       IN  /\ WithinBounds(Commit(World, w))
           /\ Becomes(Commit(World, w))
    /\ UNCHANGED <<ntVars, propVars, phase, viewerActions, pgVars, fsVars, rsVars, stVars,
                   mvVars>>

\* pages of two servers, free or for rent
InitRerender ==
    /\ Init
    /\ videoSources \in { <<RawFile, RawPlainFile>>, <<RawEmbed, RawFile>> }
    /\ accessType \in {"free", "rent"}
    /\ ~excludeFromPlan
    /\ ~autoplay
    /\ user

NextRerender ==
    \/ Next
    \/ ParentRerender

SpecRerender == InitRerender /\ [][NextRerender]_vars

SpecNormalize == Init /\ [][NormalizeCall]_vars

\* progress is tracked for a logged-in viewer of a page with a media element
InitProgress ==
    /\ PlayerInit
    /\ videoSources = <<RawFile, RawPlainFile>>
    /\ browserSupported = TRUE
    /\ nativeAndroid = FALSE
    /\ fsApi = TRUE
    /\ accessType = "free"
    /\ ~excludeFromPlan
    /\ ~autoplay
    /\ user
    /\ Tracked
    /\ watchHistory \in StoredHistories

SpecProgress == InitProgress /\ [][NextProgress]_vars

\* the admin pages, on a site that has no settings row yet; the player
\* stays unmounted
InitSettings ==
    /\ Init
    /\ videoSources = <<RawFile, RawPlainFile>>
    /\ accessType = "free"
    /\ ~excludeFromPlan
    /\ ~autoplay
    /\ user

SpecSettings == InitSettings /\ [][NextSettings]_vars

\* MobileVideoPlayer on its own; ShakaPlayer stays unmounted
SpecMobile == InitSettings /\ [][NextMobile]_vars

(***************************************************************************)
(* Claims                                                                  *)
(***************************************************************************)

\* C1: whenever protectedSource is non-null, its id is the id of
\* currentSource: a response for a source the viewer has switched away from
\* never populates the session.
C1_ValidatedIsCurrent ==
    protectedSource # NULL =>
        /\ currentSource # NULL
        /\ protectedSource.id = currentSource.id

\* the quality-URL map a raw descriptor carries: quality_urls, or mp4Urls
\* when quality_urls is absent
RawQualityMap(source) ==
    IF source.quality_urls.tag \in {"undefined", "null"} THEN source.mp4Urls
    ELSE source.quality_urls

HasSentinel(m) == \E i \in 1..Len(m.entries) :
                     m.entries[i].k = KeyType /\ m.entries[i].v = StrUndefined

\* for non-free content no URL of the page data is in player state: the
\* selected source carries none, and a validated source is an object built
\* from a response of the protected-URL exchange
PaidUrlsOnlyFromExchange ==
    /\ \A i \in 1..Len(sources) :
          sources[i].url = Undefined /\ sources[i].quality_urls = NoMap
    /\ currentSource # NULL =>
          currentSource.url = Undefined /\ currentSource.quality_urls = NoMap
    /\ protectedSource # NULL => protectedSource.ref # 0

\* C2 as stated: free content keeps every url and every non-empty
\* quality-URL map; non-free content exposes neither, and gets its URLs
\* from the exchange only.
C2_KeepsEveryNonEmptyMap ==
    phase = "mounted" =>
        /\ accessType = "free" =>
              \A i \in 1..Len(sources) :
                 /\ sources[i].url = videoSources[i].url
                 /\ (/\ RawQualityMap(videoSources[i]).tag = "object"
                     /\ RawQualityMap(videoSources[i]).entries # << >>)
                       => sources[i].quality_urls = RawQualityMap(videoSources[i])
        /\ accessType # "free" => PaidUrlsOnlyFromExchange

\* C2 amended: free content keeps every url and every non-empty quality-URL
\* map that does not carry the marker _type = 'undefined' (a map with the
\* marker, an empty map and a non-map are dropped); non-free content
\* exposes neither, and gets its URLs from the exchange only.
C2_KeepsUnmarkedNonEmptyMap ==
    phase = "mounted" =>
        /\ accessType = "free" =>
              \A i \in 1..Len(sources) :
                 /\ sources[i].url = videoSources[i].url
                 /\ sources[i].quality_urls =
                       IF /\ RawQualityMap(videoSources[i]).tag = "object"
                          /\ RawQualityMap(videoSources[i]).entries # << >>
                          /\ ~HasSentinel(RawQualityMap(videoSources[i]))
                       THEN RawQualityMap(videoSources[i])
                       ELSE NoMap
        /\ accessType # "free" => PaidUrlsOnlyFromExchange

\* C2 witness: non-free content plays a URL the exchange returned, and a
\* descriptor of the page carried a URL that was stripped.
C2_Witness ==
    /\ phase = "mounted"
    /\ accessType # "free"
    /\ protectedSource # NULL
    /\ protectedSource.url = UrlMp4
    /\ currentSource.url = Undefined
    /\ video # NULL
    /\ video.src = Url720

\* C3: every call of getProtectedUrl is made while the viewer is
\* authenticated and the access gate reports unlocked.
C3_FetchOnlyWhenUnlocked ==
    \A i \in 1..Len(inflight) : inflight[i].authenticated /\ ~inflight[i].locked

Loaded == phase = "mounted" /\ ~subscriptionLoading /\ ~rentalLoading

\* C4 as stated: rent content excluded from the plan is locked exactly when
\* the viewer holds no active rental.
C4_RentExcludeLockedUnlessRental ==
    (phase = "mounted" /\ accessType = "rent" /\ excludeFromPlan)
        => (isLocked <=> ~hasActiveRental)

\* C4 amended: once the subscription and the rental status have loaded, rent
\* content excluded from the plan is locked exactly when the viewer holds no
\* active rental, whatever the subscription state.
C4_RentExcludeLockedUnlessRentalLoaded ==
    (Loaded /\ accessType = "rent" /\ excludeFromPlan)
        => (isLocked <=> ~hasActiveRental)

\* C4 witness: a subscriber without a rental is locked out.
C4_Witness ==
    /\ Loaded /\ accessType = "rent" /\ excludeFromPlan
    /\ hasActiveSubscription /\ ~hasActiveRental /\ isLocked

\* C5 as stated: rent content not excluded from the plan is unlocked with a
\* subscription or a rental, and locked with neither.
C5_RentUnlockedBySubOrRental ==
    (phase = "mounted" /\ accessType = "rent" /\ ~excludeFromPlan)
        => (isLocked <=> (~hasActiveSubscription /\ ~hasActiveRental))

\* C5 amended: once the subscription and the rental status have loaded, rent
\* content not excluded from the plan is unlocked with a subscription or a
\* rental, and locked with neither; while a status loads it is unlocked.
C5_RentUnlockedBySubOrRentalLoaded ==
    /\ (Loaded /\ accessType = "rent" /\ ~excludeFromPlan)
          => (isLocked <=> (~hasActiveSubscription /\ ~hasActiveRental))
    /\ (accessType = "rent" /\ ~excludeFromPlan
          /\ (hasActiveSubscription \/ hasActiveRental)) => ~isLocked

\* C5 witness: a rental alone unlocks.
C5_Witness ==
    /\ Loaded /\ accessType = "rent" /\ ~excludeFromPlan
    /\ ~hasActiveSubscription /\ hasActiveRental /\ ~isLocked

\* C6 as stated: vip content is locked exactly when the viewer has no
\* active subscription.
C6_VipLockedWithoutSub ==
    (phase = "mounted" /\ accessType = "vip") => (isLocked <=> ~hasActiveSubscription)

\* C6 amended: once the subscription and the rental status have loaded, vip
\* content is locked exactly when the viewer has no active subscription,
\* whatever the rental state and the exclude-from-subscription flag.
C6_VipLockedWithoutSubLoaded ==
    (Loaded /\ accessType = "vip") => (isLocked <=> ~hasActiveSubscription)

\* C6 witness: a rental does not unlock vip content excluded from the plan.
C6_Witness ==
    /\ Loaded /\ accessType = "vip" /\ excludeFromPlan
    /\ ~hasActiveSubscription /\ hasActiveRental /\ isLocked

\* C7: for free content the gate is open, getProtectedUrl is never called,
\* and the selected source is validated with its own URL as soon as it is
\* selected, whatever the session and while the statuses load.
C7_FreePlaysAtOnce ==
    accessType = "free" =>
        /\ ~isLocked
        /\ inflight = << >>
        /\ currentSource # NULL =>
              accessValidated /\ protectedSource = currentSource

\* the kind a recognised type tag names, "none" for any other tag
TagKind(t) ==
    IF t \in {TagEmbed, TagIframe, TagIframeMixed} THEN "iframe"
    ELSE IF t \in {TagMp4, TagMp4Padded} THEN "mp4"
    ELSE IF t \in {TagHls, TagHlsUpper, TagM3u8} THEN "hls"
    ELSE IF t \in {TagDash, TagDashUpper} THEN "dash"
    ELSE "none"

\* C8: a descriptor whose tag is, after trimming and whatever its case, one
\* of embed, iframe, mp4, hls, m3u8, dash resolves to the kind the tag
\* names, for every URL.
C8_TagDecides ==
    (ntResult # "none" /\ TagKind(ntRawType) # "none") => ntResult = TagKind(ntRawType)

\* C8 witness: the tag " Mp4 " wins over a URL that ends in .m3u8.
C8_Witness ==
    ntRawType = TagMp4Padded /\ ntUrl = UrlM3u8 /\ ntResult = "mp4"

\* the kind a URL resolves to when the tag does not decide: the suffix
\* first (.m3u8, .mpd, .mp4, case-insensitive), then an embed-hosting
\* substring, then adaptive-HLS
UrlKind(u) ==
    IF u \in {UrlM3u8} THEN "hls"
    ELSE IF u \in {UrlMpd, UrlYoutuBeMpd} THEN "dash"
    ELSE IF u \in {UrlMp4, UrlMp4Upper, UrlEmbedMp4} THEN "mp4"
    ELSE IF u \in {UrlYoutuBe, UrlYoutube, UrlPlayer, UrlEmbedPath} THEN "iframe"
    ELSE "hls"

\* C9: with the tag absent or unrecognised the kind comes from the URL, the
\* suffix before the embed-hosting substring and adaptive-HLS last, and
\* every resolution gives one of the four kinds.
C9_UrlDecides ==
    ntResult # "none" =>
        /\ ntResult \in StreamKinds
        /\ TagKind(ntRawType) = "none" => ntResult = UrlKind(ntUrl)

\* C9 witness: an untagged URL with an embed substring and the suffix .mp4
\* is a file.
C9_Witness ==
    ntRawType = TagVideo /\ ntUrl = UrlEmbedMp4 /\ ntResult = "mp4"

\* C10: after a quality switch on a file source made with nothing pending,
\* once the element is ready again (and until the viewer acts or playback
\* advances), the position is the position at the switch and the element
\* plays exactly if it played; for free and for non-free content.
C10_QualitySwitchRestores ==
    (qualitySwitch # NoSwitch /\ qualitySwitch.settled /\ video # NULL /\ video.ready) =>
        /\ video.time = qualitySwitch.savedTime
        /\ (~video.paused) = qualitySwitch.wasPlaying

\* C11: after a server switch between two non-embed sources made with
\* nothing pending, once the element is ready on the new source (and until
\* the viewer acts or playback advances), the position is the position at
\* the switch and the element plays exactly if it played.
C11_ServerSwitchRestores ==
    (/\ serverSwitch # NoSwitch /\ serverSwitch.settled
     /\ video # NULL /\ video.ready
     /\ tasks = << >> /\ inflight = << >>) =>
        /\ video.time = serverSwitch.savedTime
        /\ (~video.paused) = serverSwitch.wasPlaying

\* C12: a call of saveProgress (by the interval or by the teardown) made
\* while the duration is unknown, zero or NaN starts no backend round trip
\* and changes no watch_history row.
C12_NoSaveWithoutDuration ==
    [][(pgCalls' = pgCalls + 1 /\ (pgDuration = NaN \/ pgDuration = 0))
          => (pgSaves' = pgSaves /\ watchHistory' = watchHistory)]_vars

\* C12 witness: saveProgress has run on an element without duration, and
\* nothing awaits the backend or was written.
C12_Witness ==
    /\ pgCalls > 0
    /\ pgLastDuration \in {NaN, 0}
    /\ pgDuration = pgLastDuration
    /\ pgSaves = << >>
    /\ watchHistory = << >>

\* C17: the backend holds at most one watch_history row for the viewer and
\* the content.
C17_AtMostOneRow == Len(watchHistory) <= 1

\* the URLs a validated source can be played from: its own and those of its
\* quality map
UrlsOf(source) ==
    {source.url} \cup {source.quality_urls.entries[i].v : i \in 1..Len(source.quality_urls.entries)}

\* C18: the media element carries a URL only while accessValidated is true,
\* protectedSource is non-null and is the source the URL belongs to, and the
\* access gate is open; a run of initPlayer started for a source that has
\* since been invalidated or replaced attaches nothing.
C18_AttachedOnlyValidated ==
    (video # NULL /\ video.src # Undefined) =>
        /\ accessValidated
        /\ protectedSource # NULL
        /\ ~isLocked
        /\ video.src \in UrlsOf(protectedSource)

\* C19: while a failure of the protected-URL exchange is the last outcome
\* (the error is recorded and accessValidated is false), no URL of the
\* selected source is attached to the media element: no playback is
\* attempted for that source.
C19_FailureAttachesNothing ==
    (accessError = "failed" /\ ~accessValidated /\ video # NULL /\ currentSource # NULL) =>
        video.src \notin UrlsOf(BackendSource(currentSource.id))

\* nothing is left to happen by itself: the statuses have loaded, no
\* response is awaited, no suspended run or timer is pending, and the media
\* element has no canplay to fire
Quiescent ==
    /\ Loaded
    /\ inflight = << >>
    /\ tasks = << >>
    /\ video # NULL => (video.src = Undefined \/ video.ready)

\* C20: with a source selected, once nothing is pending any more the
\* loading indicator is off or the lock overlay has replaced it; it does not
\* stay on after a failed exchange or for a viewer without a session (who
\* holds no entitlement).
C20_LoadingEnds ==
    (/\ Quiescent
     /\ currentSource # NULL
     /\ user \/ (~hasActiveSubscription /\ ~hasActiveRental)) =>
        (~isLoading \/ isLocked)

\* C16: from a manual quality selection until the viewer switches automatic
\* mode back on, autoQualityEnabled is false and the engine playerRef holds
\* has its ABR off, for every stream kind with a quality menu.
C16_ManualDisablesAuto ==
    manualQuality =>
        /\ ~autoQualityEnabled
        /\ playerRef # 0 => ~engines[playerRef].abr

\* the engines that have been built and not destroyed
AliveEngines == {e \in 1..Len(engines) : engines[e].alive}

\* C13: at most one engine is alive, and an alive engine that is not in the
\* middle of its own attach is the one playerRef holds: the engine of the
\* previous source is destroyed before the next one is built.
C13_OneEngineOwned ==
    /\ Cardinality(AliveEngines) <= 1
    /\ \A e \in AliveEngines :
          (\A i \in 1..Len(tasks) : ~(tasks[i].kind = "attach" /\ tasks[i].engine = e))
              => playerRef = e

\* the runs of initPlayer that await player.load
LoadTasks(ts) == {i \in 1..Len(ts) : ts[i].kind = "load"}

C14_UnmountClearsAll ==
    phase = "unmounted" =>
        /\ timers = {}
        /\ ~pgTracking
        /\ \A i \in 1..Len(tasks) : tasks[i].kind # "autoplay"
        /\ tasks = << >> => AliveEngines = {}

\* C21: while the subscription status or the rental status is loading, the
\* access gate reports not locked, and for non-free content no call of
\* getProtectedUrl is pending, no source is validated and the media element
\* holds no URL.
C21_NothingStartsWhileLoading ==
    (phase = "mounted" /\ (subscriptionLoading \/ rentalLoading)) =>
        /\ ~isLocked
        /\ accessType # "free" =>
              /\ inflight = << >>
              /\ ~accessValidated
              /\ video # NULL => video.src = Undefined

\* C22: on the Android shell, once no run of toggleFullscreen awaits the
\* browser, the last orientation lock asked for is landscape when the
\* document is in fullscreen and is not landscape otherwise; after unmount
\* it is portrait.
C22_LockFollowsFullscreen ==
    (nativeAndroid /\ fsPending = << >>) =>
        /\ phase = "mounted" => (fsElement <=> lastLock = "landscape")
        /\ phase = "unmounted" => lastLock = "portrait"

\* C23: every watch_history row has completed = TRUE exactly when its
\* duration minus its position is under 30 seconds, and a row the load
\* effect found completed is never turned into a resume position: neither
\* savedProgress is set nor the element moved.
C23_CompletedUnderMargin ==
    /\ \A i \in 1..Len(watchHistory) :
          watchHistory[i].completed <=>
              (watchHistory[i].duration - watchHistory[i].progress) < CompletedMargin
    /\ pgLoaded = "completed" => (savedProgress = NoProgress /\ ~pgResumed)

\* a completed row was loaded and this session has written a completed and
\* an unfinished row itself
C23_Witness ==
    /\ pgLoaded = "completed"
    /\ Len(watchHistory) = 2
    /\ pgCalls = 2
    /\ watchHistory[1].completed # watchHistory[2].completed

\* C24: whenever the viewer id has resolved and the mounted player shows a
\* source that is not an embed (its media element exists), the
\* progress-saving interval is set.
C24_TrackingWhileWatching ==
    (phase = "mounted" /\ userId /\ video # NULL
        /\ currentSource # NULL /\ currentSource.type # "iframe") => pgTracking

\* the src attribute React gives the <iframe>, rendered exactly while the
\* current source is an embed
IframeSrc ==
    IF currentSource # NULL /\ currentSource.type = "iframe" THEN currentSource.url
    ELSE Undefined

\* C25: while the current source is an embed, a validated source gives the
\* frame its playable URL (free or not), and non-free content gives the
\* frame no URL before validation.
C25_FrameShowsValidatedUrl ==
    (phase = "mounted" /\ currentSource # NULL /\ currentSource.type = "iframe") =>
        /\ (accessValidated /\ protectedSource # NULL
               /\ protectedSource.id = currentSource.id) =>
              IframeSrc = protectedSource.url
        /\ (accessType # "free" /\ ~accessValidated) => IframeSrc = Undefined

\* C26: whenever the media element is paused and the player knows it
\* (isPlaying is false), the controls are shown.
C26_PausedShowsControls ==
    (phase = "mounted" /\ video # NULL /\ video.paused /\ ~isPlaying) => showControls

\* C27: a render of the parent that passes an equal source list leaves the
\* selected server, accessValidated and the validated source as they are
\* and starts no teardown or initialisation of the player.
C27_RerenderKeepsSelection ==
    [][sourcesGen' # sourcesGen =>
          /\ currentSource'.id = currentSource.id
          /\ accessValidated' = accessValidated
          /\ (protectedSource' = NULL) = (protectedSource = NULL)
          /\ tasks' = tasks]_vars

\* C28: for non-free content, an authenticated viewer and resolved statuses
\* that unlock it, every step that changes the selected source issues
\* exactly one call of getProtectedUrl, for the source now selected.
C28_OneExchangePerSelection ==
    [][(/\ currentSource' # currentSource
        /\ accessType # "free"
        /\ user
        /\ ~subscriptionLoading /\ ~rentalLoading
        /\ ~isLocked)
          => /\ Len(inflight') = Len(inflight) + 1
             /\ inflight'[Len(inflight')].sourceId = currentSource'.id]_vars

\* C29: a save run in which a write of a setting returned an error ends with
\* the error notification, never with the success notification, and with
\* the saving flag of its page reset.
C29_FailedWriteReported ==
    /\ stWriteFailed => toast # "success"
    /\ (stStage = "idle" /\ stWriteFailed) => toast = "error"
    /\ stStage = "idle" => (~isSaving /\ ~isSubmitting)

\* C30: in MobileVideoPlayer at most one Hls instance is alive and at most
\* one loadedmetadata listener of the source-initialisation effect is on
\* the media element, so that one metadata event makes at most one call of
\* play(); after unmount no instance is alive.
C30_OneEngineOneListener ==
    /\ Cardinality({i \in 1..Len(hlsInstances) : hlsInstances[i]}) <= 1
    /\ Len(metadataListeners) <= 1
    /\ playAttempts <= 1
    /\ mvPhase = "unmounted" => \A i \in 1..Len(hlsInstances) : ~hlsInstances[i]

====
